---- MODULE Spec2Model ----
(***************************************************************************)
(* Verification model of the metriccost / whodidthis analyzer:             *)
(* Analyzer.StartAnalysis (analyzer/analyzer.go) racing with the           *)
(* background job Analyzer.runAnalysis (analyzer/prompt.go), the analysis  *)
(* repository they share, and the single-inflight guard.                   *)
(*                                                                         *)
(* Every HTTP handler that calls StartAnalysis is a process (Callers);     *)
(* every goroutine started by `go a.runAnalysis(...)` is a process keyed   *)
(* by the id of the analysis row it works on.  A step of the model is one  *)
(* access to shared state (the mutex-protected status, the repository, the *)
(* shared *SnapshotAnalysis record) together with the local computation    *)
(* that precedes it.                                                       *)
(*                                                                         *)
(* The second part is Collector.Collect (collector/prometheus_collector.go)*)
(* with its repositories, its progress sink and the cancellation of its    *)
(* context.                                                                *)
(***************************************************************************)
EXTENDS Integers, Sequences, FiniteSets, TLC

(***************************************************************************)
(* Bounds of the model                                                     *)
(***************************************************************************)
\* Analysis rows the repository hands out ids for (ids are never reused).
MaxID == 2
\* Services DiscoverServices returns at most.
MaxServices == 2
\* Metrics GetMetricsForService returns at most for one service.
MaxMetrics == 1
\* The last tick of the wall clock.
MaxTime == 3
\* Metric names GetAllMetricNames returns at most.
MaxNames == 3
\* CollectorConfig.Concurrency and CollectorConfig.BatchSize.
Concurrency == 2
BatchSize == 2
\* The values a label takes at most, and the largest sampleLimit.
MaxValue == 3
MaxLimit == 2
\* Function calls whose tool and arguments the language model picks freely
\* in one dialogue; afterwards a looping model alternates between its two
\* calls, any other model answers without a function call.
MaxModelCalls == 1

(***************************************************************************)
(* Program constants                                                       *)
(***************************************************************************)
maxAgenticIterations == 20
\* doRequest: c.doRequestWithRetry(ctx, method, path, body, 3).
maxRetries == 3

Callers == {"h1", "h2"}
IDs == 1 .. MaxID

\* Snapshots that exist in the snapshot repository, and the ids requests
\* may name (3 names a snapshot that does not exist).
SnapshotIDs == {1, 2, 3}
Snapshots == {1, 2}

\* models.AnalysisStatus
StatusPending == "pending"
StatusRunning == "running"
StatusCompleted == "completed"
StatusFailed == "failed"

NullTime == "null"
Now == "now"

NoRow == [status |-> "absent"]
NoObj == [status |-> "absent"]
NoCall == [name |-> "none", args |-> "none"]
NoResult == [kind |-> "none"]
NilResp == [nil |-> TRUE, hasContent |-> FALSE, parts |-> <<>>]
NoErr == ""
\* No function response has been sent.
NoSent == [name |-> "none"]

\* The locals of a runAnalysis goroutine; pc "idle": no goroutine.
IdleJob ==
    [pc |-> "idle", i |-> 0, resp |-> NilResp, fc |-> NoCall, result |-> NoResult,
     err |-> NoErr, lastWriteOK |-> TRUE, sent |-> NoSent]

ToolNames == {"get_service_metrics", "get_metric_labels", "compare_services"}
\* Function calls the language model may request: one with arguments the
\* executor accepts, one whose arguments it rejects.
ValidRequest == [name |-> "get_service_metrics", args |-> "valid"]
Requests == {ValidRequest, [name |-> "compare_services", args |-> "invalid"]}

\* err.Error() of a failed call to a collaborator, and the analyzer's own
\* error text (prompt.go line 280).
ExternalError == "external error"
EmptyResponseError == "received an empty response from Gemini"

VARIABLES
    running,            \* Analyzer.running
    currentSnapshotID,  \* Analyzer.currentSnapshotID
    previousSnapshotID, \* Analyzer.previousSnapshotID
    progress,           \* Analyzer.progress
    rows,               \* the analysis table: id -> row, or NoRow
    nextID,             \* the id the next inserted row gets
    mem,                \* the *SnapshotAnalysis records shared by a call and its job
    call,               \* each handler's position in StartAnalysis
    job,                \* each runAnalysis goroutine's position and locals
    executed,           \* per job, the tool invocations the executor performed, in order
    llmLoops,           \* whether the language model keeps calling tools for ever
    cancelled,          \* whether the context of the request / of the process is cancelled
    snapshotTable,      \* the snapshots table: id -> row, or NoSnapshot
    serviceTable,       \* the service_snapshots rows, in insertion order (id = index)
    metricTable,        \* the metric_snapshots rows, in insertion order
    labelTable,         \* the label_snapshots rows, in insertion order
    scan,               \* the position and the locals of Collector.Collect
    trace,              \* progress events and repository writes of the scan, in order
    now,                \* the wall clock, in ticks of half a second
    collect,            \* the position and the locals of PrometheusCollector.Collect
    sem,                \* the number of tokens in the channel sem
    wg,                 \* the counter of the WaitGroup wg
    mu,                 \* the worker that holds the mutex mu, or 0
    batch,              \* len(batch)
    saved,              \* the metric snapshots SaveBatch has persisted
    collectResult,      \* the CollectResult the workers share
    workers,            \* per metric name, its goroutine's position and locals
    client,             \* the position and the locals of a request of the metrics client
    sent,               \* the HTTP requests the client has put on the wire
    waits,              \* the backoff waits the client has sat through, in seconds
    received,           \* the answers the client has received, in order
    lookup,             \* the input and the result of GetLabelsForMetric
    schedRunning,       \* the running flag of the scheduler's status
    collecting,         \* the origins (loop, trigger) whose Collect is in flight
    loop,               \* the position of the loop of Scheduler.Start
    triggers,           \* each handler's position in TriggerScan and its result
    started,            \* the scans started so far
    stopCh,             \* the channel s.stopCh: open or closed
    stops               \* each caller's position in Stop

collectorVars == <<snapshotTable, serviceTable, metricTable, labelTable, scan, trace,
                   now>>

poolVars == <<collect, sem, wg, mu, batch, saved, collectResult, workers>>

clientVars == <<client, sent, waits, received, lookup>>

schedVars == <<schedRunning, collecting, loop, triggers, started, stopCh, stops>>

vars == <<running, currentSnapshotID, previousSnapshotID, progress, rows, nextID,
          mem, call, job, executed, llmLoops, cancelled, collectorVars, poolVars,
          clientVars, schedVars>>

analyzerVars == <<running, currentSnapshotID, previousSnapshotID, progress>>

(***************************************************************************)
(* The analysis repository (storage.AnalysisRepo).  Its implementation is  *)
(* not part of the sources at hand; it is modelled from the repository     *)
(* contract: rows are keyed by id, a pair (current, previous) is UNIQUE,   *)
(* Create inserts a Pending row, Update writes the mutable columns of the  *)
(* row with the record's id, Delete removes the pair's row.                *)
(***************************************************************************)
NewRow(cur, prev) ==
    [cur |-> cur, prev |-> prev, status |-> StatusPending, result |-> <<>>,
     error |-> NoErr, completedAt |-> NullTime, toolCalls |-> <<>>]

PairIDs(rs, cur, prev) ==
    {id \in IDs : rs[id] # NoRow /\ rs[id].cur = cur /\ rs[id].prev = prev}

\* GetByPair: the pair's row and its id, or nil (id 0).
GetByPair(rs, cur, prev) ==
    IF PairIDs(rs, cur, prev) = {}
    THEN [id |-> 0, row |-> NoRow]
    ELSE LET id == CHOOSE x \in PairIDs(rs, cur, prev) : TRUE
         IN [id |-> id, row |-> rs[id]]

\* Create succeeds only when the pair has no row yet and an id is left.
CanCreate(rs, nid, cur, prev) ==
    /\ PairIDs(rs, cur, prev) = {}
    /\ nid <= MaxID

RepoCreate(rs, nid, cur, prev) == [rs EXCEPT ![nid] = NewRow(cur, prev)]

\* Update ... WHERE id = ?: no row with that id, nothing changes.
RepoUpdate(rs, id, obj) ==
    IF rs[id] = NoRow
    THEN rs
    ELSE [rs EXCEPT ![id] = [@ EXCEPT !.status = obj.status,
                                      !.result = obj.result,
                                      !.error = obj.error,
                                      !.completedAt = obj.completedAt,
                                      !.toolCalls = obj.toolCalls]]

RepoDelete(rs, cur, prev) ==
    [id \in IDs |-> IF id \in PairIDs(rs, cur, prev) THEN NoRow ELSE rs[id]]

(***************************************************************************)
(* Analyzer.StartAnalysis                                                  *)
(***************************************************************************)
NoRet == [kind |-> "none", id |-> 0, status |-> "none", touched |-> FALSE]
IdleCall == [pc |-> "idle", cur |-> 0, prev |-> 0, id |-> 0, ret |-> NoRet]

Ret(kind, id, status, touched) ==
    [kind |-> kind, id |-> id, status |-> status, touched |-> touched]

\* The call has returned `ret`; its arguments are out of scope.
Returned(ret) == [pc |-> "returned", cur |-> 0, prev |-> 0, id |-> ret.id, ret |-> ret]

\* The outcomes of a call that pays no attention to its context.
MayFailIgnoresContext == BOOLEAN

\* The outcomes of a call that is given the caller's context: it may fail
\* for reasons of its own, and it fails when the context is cancelled.
MayFail == IF cancelled THEN {TRUE} ELSE BOOLEAN

\* snapshots.GetByID: an error, nil (no such snapshot) or the snapshot.
GetSnapshot(id, fails) ==
    IF fails THEN "err" ELSE IF id \in Snapshots THEN "found" ELSE "nil"

\* The lookup without the check of the previous snapshot.
StartLookupNoPrevCheck(curRes, prevRes, pairFails, existing) ==
    IF curRes = "err" THEN Ret("SnapshotLookupFailed", 0, "none", FALSE)
    ELSE IF curRes = "nil" THEN Ret("SnapshotNotFound", 0, "none", FALSE)
    ELSE IF pairFails THEN Ret("CheckFailed", 0, "none", TRUE)
    ELSE IF existing.id # 0 /\ existing.row.status = StatusCompleted
         THEN Ret("existing", existing.id, existing.row.status, TRUE)
    ELSE Ret("proceed", 0, "none", TRUE)

\* The lookup that compares the existing row with the wrong status.
StartLookupWrongStatus(curRes, prevRes, pairFails, existing) ==
    IF curRes = "err" THEN Ret("SnapshotLookupFailed", 0, "none", FALSE)
    ELSE IF curRes = "nil" THEN Ret("SnapshotNotFound", 0, "none", FALSE)
    ELSE IF prevRes = "err" THEN Ret("SnapshotLookupFailed", 0, "none", FALSE)
    ELSE IF prevRes = "nil" THEN Ret("SnapshotNotFound", 0, "none", FALSE)
    ELSE IF pairFails THEN Ret("CheckFailed", 0, "none", TRUE)
    ELSE IF existing.id # 0 /\ existing.row.status = StatusRunning
         THEN Ret("existing", existing.id, existing.row.status, TRUE)
    ELSE Ret("proceed", 0, "none", TRUE)

\* Lines 70-94: resolve both snapshots, then look for a completed analysis
\* of the pair.  "touched" records whether the analysis repository was
\* called.  The result is the return value, or kind "proceed".
StartLookup(curRes, prevRes, pairFails, existing) ==
    IF curRes = "err" THEN Ret("SnapshotLookupFailed", 0, "none", FALSE)
    ELSE IF curRes = "nil" THEN Ret("SnapshotNotFound", 0, "none", FALSE)
    ELSE IF prevRes = "err" THEN Ret("SnapshotLookupFailed", 0, "none", FALSE)
    ELSE IF prevRes = "nil" THEN Ret("SnapshotNotFound", 0, "none", FALSE)
    ELSE IF pairFails THEN Ret("CheckFailed", 0, "none", TRUE)
    ELSE IF existing.id # 0 /\ existing.row.status = StatusCompleted
         THEN Ret("existing", existing.id, existing.row.status, TRUE)
    ELSE Ret("proceed", 0, "none", TRUE)

CallStart(c, cur, prev) ==
    /\ call[c].pc = "idle"
    /\ \E curFails, prevFails, pairFails \in MayFail :
         LET out == StartLookup(GetSnapshot(cur, curFails),
                                GetSnapshot(prev, prevFails),
                                pairFails, GetByPair(rows, cur, prev))
         IN call' = [call EXCEPT ![c] =
                IF out.kind = "proceed"
                THEN [pc |-> "lock", cur |-> cur, prev |-> prev, id |-> 0, ret |-> NoRet]
                ELSE Returned(out)]
    /\ UNCHANGED <<analyzerVars, rows, nextID, mem, job, executed, llmLoops, cancelled, schedVars, collectorVars, poolVars, clientVars>>

GuardNeverRejects(isRunning) == FALSE

\* Lines 96-105, the critical section: the guard decides on a.running.
GuardRejects(isRunning) == isRunning

CallLock(c) ==
    /\ call[c].pc = "lock"
    /\ IF GuardRejects(running)
       THEN /\ call' = [call EXCEPT ![c] = Returned(Ret("AlreadyRunning", 0, "none", TRUE))]
            /\ UNCHANGED analyzerVars
       ELSE /\ running' = TRUE
            /\ currentSnapshotID' = call[c].cur
            /\ previousSnapshotID' = call[c].prev
            /\ progress' = <<"Initializing">>
            /\ call' = [call EXCEPT ![c].pc = "create"]
    /\ UNCHANGED <<rows, nextID, mem, job, executed, llmLoops, cancelled, schedVars, collectorVars, poolVars, clientVars>>

\* The guard that stays set after a failed insert.
GuardKept == TRUE

\* Lines 109-111: a.running after a failed insert.
GuardReleased == FALSE

\* Lines 107-115: insert the Pending row; on failure release the guard, on
\* success start the goroutine (go a.runAnalysis).
CallCreate(c) ==
    /\ call[c].pc = "create"
    /\ \E dbFails \in MayFail :
         IF dbFails \/ ~CanCreate(rows, nextID, call[c].cur, call[c].prev)
         THEN /\ running' = GuardReleased
              /\ call' = [call EXCEPT ![c] = Returned(Ret("CreateFailed", 0, "none", TRUE))]
              /\ UNCHANGED <<currentSnapshotID, previousSnapshotID, progress,
                             rows, nextID, mem, job>>
         ELSE /\ rows' = RepoCreate(rows, nextID, call[c].cur, call[c].prev)
              /\ mem' = [mem EXCEPT ![nextID] = NewRow(call[c].cur, call[c].prev)]
              /\ nextID' = nextID + 1
              /\ job' = [job EXCEPT ![nextID] = [IdleJob EXCEPT !.pc = "start"]]
              /\ call' = [call EXCEPT ![c].pc = "setStatus", ![c].id = nextID]
              /\ UNCHANGED analyzerVars
    /\ UNCHANGED <<executed, llmLoops, cancelled, schedVars, collectorVars, poolVars, clientVars>>

(***************************************************************************)
(* The background job's locals, the model's responses and the tools        *)
(***************************************************************************)
InFlight(id) == job[id].pc # "idle"

\* A record is reachable while its job runs or the call that created it has
\* not returned yet.
HeldByCall(c, id) == call[c].id = id /\ call[c].pc = "setStatus"

TextPart(t) == [text |-> t, thought |-> FALSE, call |-> NoCall]
ThoughtPart(t) == [text |-> t, thought |-> TRUE, call |-> NoCall]
CallPart(r) == [text |-> <<>>, thought |-> FALSE, call |-> r]

Content(parts) == [nil |-> FALSE, hasContent |-> TRUE, parts |-> parts]
\* A response without candidates, or whose first candidate has no content.
EmptyResp == [nil |-> FALSE, hasContent |-> FALSE, parts |-> <<>>]
TextResp == Content(<<TextPart(<<"a">>), ThoughtPart(<<"t">>), TextPart(<<"b">>)>>)
ThoughtResp == Content(<<ThoughtPart(<<"t">>)>>)
CallResp(r) == Content(<<TextPart(<<"p">>), CallPart(r)>>)

\* The function calls the model may ask for after `made` calls of the
\* dialogue; `last` is the call it asked for last.
AllowedRequests(made, last) ==
    IF made < MaxModelCalls THEN (IF llmLoops THEN Requests ELSE {ValidRequest})
    ELSE IF llmLoops THEN Requests \ {last}
    ELSE {}

\* The answers SendMessage may return.  The model that stops calling tools
\* answers with a text or a call; the looping model also answers with an
\* empty response or with thoughts only.
ModelResponses(made, last) ==
    {TextResp}
        \cup (IF llmLoops THEN {EmptyResp, ThoughtResp} ELSE {})
        \cup {CallResp(r) : r \in AllowedRequests(made, last)}

\* Lines 286-292: the first function call among the parts, if any.
RECURSIVE FirstCall(_)
FirstCall(parts) ==
    IF parts = <<>> THEN NoCall
    ELSE IF Head(parts).call # NoCall THEN Head(parts).call
    ELSE FirstCall(Tail(parts))

\* The final text that keeps the thoughts.
RECURSIVE FinalTextWithThoughts(_)
FinalTextWithThoughts(parts) ==
    IF parts = <<>> THEN <<>>
    ELSE Head(parts).text \o FinalTextWithThoughts(Tail(parts))

\* Lines 337-344: the non-thought text parts, concatenated in order.
RECURSIVE FinalText(_)
FinalText(parts) ==
    IF parts = <<>> THEN <<>>
    ELSE LET p == Head(parts)
         IN (IF p.text # <<>> /\ ~p.thought THEN p.text ELSE <<>>)
                \o FinalText(Tail(parts))

NoAnalysisGenerated == <<"No analysis generated.">>

\* Lines 337-362 on the last response.
ResultText(resp) ==
    LET text == IF ~resp.nil /\ resp.hasContent THEN FinalText(resp.parts) ELSE <<>>
    IN IF text = <<>> THEN NoAnalysisGenerated ELSE text

\* ToolExecutor.Execute: the tool's result, or an error.
Execute(fc) ==
    IF fc.name \in ToolNames /\ fc.args = "valid"
    THEN [kind |-> "ok", value |-> fc.name]
    ELSE [kind |-> "error", value |-> "invalid arguments"]

\* The result that loses the tool's error.
ToolResultDropsError(fc) == [kind |-> "map", error |-> "", value |-> ""]

\* Lines 301-305: a tool error becomes the result {error: message}.
ToolResult(fc) ==
    LET r == Execute(fc)
    IN IF r.kind = "error" THEN [kind |-> "map", error |-> r.value, value |-> ""]
       ELSE [kind |-> "map", error |-> "", value |-> r.value]

\* toMap, lines 382-391: the result encoded as JSON and decoded into a map;
\* a result that is no JSON object cannot be decoded.
ToMap(result) ==
    IF result.kind = "map"
    THEN [ok |-> TRUE, map |-> [error |-> result.error, value |-> result.value]]
    ELSE [ok |-> FALSE, map |-> [error |-> "cannot unmarshal", value |-> ""]]

\* Lines 317-327: the function response sent to the model.
FunctionResponse(fc, result) ==
    [name |-> fc.name, response |-> ToMap(result).map]

\* Lines 307-311.
AppendToolCall(calls, fc, result) ==
    Append(calls, [name |-> fc.name, args |-> fc.args, result |-> result])

LoopContinuesInclusive(i) == i <= maxAgenticIterations

\* Line 278: the loop condition.
LoopContinues(i) == i < maxAgenticIterations

\* completeAnalysisWithError, lines 146-149: the writes to the shared record.
FailRecord(obj, err) ==
    [obj EXCEPT !.status = StatusFailed, !.error = err, !.completedAt = Now]

\* Lines 369-372.
CompleteRecord(obj, text) ==
    [obj EXCEPT !.status = StatusCompleted, !.result = text, !.completedAt = Now]

\* Lines 117-118: the write to the record the job already works on, and the
\* return of the record.  A record whose job has ended is garbage from here.
CallReturn(c) ==
    /\ call[c].pc = "setStatus"
    /\ mem' = IF InFlight(call[c].id)
              THEN [mem EXCEPT ![call[c].id].status = StatusRunning]
              ELSE [mem EXCEPT ![call[c].id] = NoObj]
    /\ call' = [call EXCEPT ![c] =
                    Returned(Ret("started", call[c].id, StatusRunning, TRUE))]
    /\ UNCHANGED <<analyzerVars, rows, nextID, job, executed, llmLoops, cancelled, schedVars, collectorVars, poolVars, clientVars>>

\* The handler has answered the request.
CallEnd(c) ==
    /\ call[c].pc = "returned"
    /\ call' = [call EXCEPT ![c] = IdleCall]
    /\ UNCHANGED <<analyzerVars, rows, nextID, mem, job, executed, llmLoops, cancelled, schedVars, collectorVars, poolVars, clientVars>>

\* Analyzer.DeleteAnalysis
DeleteAnalysis(cur, prev) ==
    /\ rows' = RepoDelete(rows, cur, prev)
    /\ UNCHANGED <<analyzerVars, nextID, mem, call, job, executed, llmLoops, cancelled, schedVars, collectorVars, poolVars, clientVars>>

(***************************************************************************)
(* Analyzer.runAnalysis                                                    *)
(***************************************************************************)
\* A fatal error: completeAnalysisWithError's writes to the record; its
\* repository update is the job's next step.
Fail(id, err) ==
    /\ mem' = [mem EXCEPT ![id] = FailRecord(mem[id], err)]
    /\ job' = [job EXCEPT ![id].pc = "failUpdate", ![id].err = err,
                          ![id].resp = NilResp, ![id].fc = NoCall,
                          ![id].result = NoResult, ![id].lastWriteOK = TRUE,
                          ![id].sent = NoSent]

\* a.analysisRepo.Update(ctx, analysis) with its outcome recorded.
UpdateRow(id, ok) ==
    /\ rows' = IF ok THEN RepoUpdate(rows, id, mem[id]) ELSE rows

\* `if err := a.analysisRepo.Update(...); err != nil`: the outcome is known
\* until the job's next statement.
Written(j, ok) == [j EXCEPT !.lastWriteOK = ok]

\* Line 244.
JobSetRunning(id) ==
    /\ job[id].pc = "start"
    /\ mem' = [mem EXCEPT ![id].status = StatusRunning]
    /\ job' = [job EXCEPT ![id].pc = "updRunning"]
    /\ UNCHANGED <<analyzerVars, rows, nextID, call, executed, llmLoops, cancelled, schedVars, collectorVars, poolVars, clientVars>>

\* Lines 245-247: a failed update is logged, the job goes on.
JobUpdateRunning(id) ==
    /\ job[id].pc = "updRunning"
    /\ \E ok \in BOOLEAN :
         /\ UpdateRow(id, ok)
         /\ job' = [job EXCEPT ![id] = [Written(@, ok) EXCEPT !.pc = "buildPrompt"]]
    /\ UNCHANGED <<analyzerVars, nextID, mem, call, executed, llmLoops, cancelled, schedVars, collectorVars, poolVars, clientVars>>

\* Lines 249-254.
JobBuildPrompt(id) ==
    /\ job[id].pc = "buildPrompt"
    /\ \E ok \in BOOLEAN :
         IF ok
         THEN /\ job' = [job EXCEPT ![id].pc = "createChat", ![id].lastWriteOK = TRUE]
              /\ UNCHANGED mem
         ELSE Fail(id, ExternalError)
    /\ UNCHANGED <<analyzerVars, rows, nextID, call, executed, llmLoops, cancelled, schedVars, collectorVars, poolVars, clientVars>>

\* Lines 256-269.
JobCreateChat(id) ==
    /\ job[id].pc = "createChat"
    /\ progress' = <<"Calling Gemini API">>
    /\ \E ok \in BOOLEAN :
         IF ok
         THEN /\ job' = [job EXCEPT ![id].pc = "sendInitial"]
              /\ UNCHANGED mem
         ELSE Fail(id, ExternalError)
    /\ UNCHANGED <<running, currentSnapshotID, previousSnapshotID, rows, nextID,
                   call, executed, llmLoops, cancelled, schedVars, collectorVars, poolVars, clientVars>>

\* Lines 271-276.
JobSendInitial(id) ==
    /\ job[id].pc = "sendInitial"
    /\ \/ \E r \in ModelResponses(0, NoCall) :
            /\ job' = [job EXCEPT ![id].pc = "loop", ![id].resp = r, ![id].i = 0]
            /\ UNCHANGED mem
       \/ Fail(id, ExternalError)
    /\ UNCHANGED <<analyzerVars, rows, nextID, call, executed, llmLoops, cancelled, schedVars, collectorVars, poolVars, clientVars>>

\* Lines 278-299: the loop condition, the empty-response check, the search
\* for a function call.  The response is not read again once a call was found.
JobLoop(id) ==
    /\ job[id].pc = "loop"
    /\ LET j == job[id]
           fc == FirstCall(j.resp.parts)
       IN IF ~LoopContinues(j.i)
          THEN /\ job' = [job EXCEPT ![id].pc = "final", ![id].sent = NoSent]
               /\ UNCHANGED <<mem, progress>>
          ELSE IF ~j.resp.hasContent
          THEN /\ Fail(id, EmptyResponseError)
               /\ UNCHANGED progress
          ELSE IF fc = NoCall
          THEN /\ job' = [job EXCEPT ![id].pc = "final", ![id].sent = NoSent]
               /\ UNCHANGED <<mem, progress>>
          ELSE /\ job' = [job EXCEPT ![id].pc = "exec", ![id].fc = fc,
                                     ![id].resp = NilResp, ![id].sent = NoSent]
               /\ progress' = <<"Executing tool", fc.name, j.i + 1>>
               /\ UNCHANGED mem
    /\ UNCHANGED <<running, currentSnapshotID, previousSnapshotID, rows, nextID,
                   call, executed, llmLoops, cancelled, schedVars, collectorVars, poolVars, clientVars>>

\* Lines 301-311.
JobExecTool(id) ==
    /\ job[id].pc = "exec"
    /\ LET result == ToolResult(job[id].fc)
       IN /\ executed' = [executed EXCEPT ![id] =
                            Append(@, [name |-> job[id].fc.name,
                                       args |-> job[id].fc.args,
                                       failed |-> Execute(job[id].fc).kind = "error"])]
          /\ mem' = [mem EXCEPT ![id].toolCalls =
                            AppendToolCall(@, job[id].fc, result)]
          /\ job' = [job EXCEPT ![id].pc = "updTool", ![id].result = result]
    /\ UNCHANGED <<analyzerVars, rows, nextID, call, llmLoops, cancelled, schedVars, collectorVars, poolVars, clientVars>>

\* Lines 313-315: a failed update is logged, the job goes on.
JobUpdateTool(id) ==
    /\ job[id].pc = "updTool"
    /\ \E ok \in BOOLEAN :
         /\ UpdateRow(id, ok)
         /\ job' = [job EXCEPT ![id] = [Written(@, ok) EXCEPT !.pc = "sendResult"]]
    /\ UNCHANGED <<analyzerVars, nextID, mem, call, executed, llmLoops, cancelled, schedVars, collectorVars, poolVars, clientVars>>

\* Lines 317-333: the function response goes to the model; its answer is
\* the next iteration's response.
JobSendResult(id) ==
    /\ job[id].pc = "sendResult"
    /\ \/ \E r \in ModelResponses(job[id].i + 1, job[id].fc) :
            /\ job' = [job EXCEPT ![id].pc = "loop", ![id].resp = r,
                                  ![id].i = @ + 1, ![id].result = NoResult,
                                  ![id].lastWriteOK = TRUE,
                                  ![id].sent = FunctionResponse(job[id].fc,
                                                                job[id].result)]
            /\ UNCHANGED mem
       \/ Fail(id, ExternalError)
    /\ UNCHANGED <<analyzerVars, rows, nextID, call, executed, llmLoops, cancelled, schedVars, collectorVars, poolVars, clientVars>>

\* Lines 335-372.
JobFinalize(id) ==
    /\ job[id].pc = "final"
    /\ progress' = <<"Generating final analysis">>
    /\ mem' = [mem EXCEPT ![id] = CompleteRecord(mem[id], ResultText(job[id].resp))]
    /\ job' = [job EXCEPT ![id].pc = "updFinal", ![id].resp = NilResp,
                          ![id].fc = NoCall]
    /\ UNCHANGED <<running, currentSnapshotID, previousSnapshotID, rows, nextID,
                   call, executed, llmLoops, cancelled, schedVars, collectorVars, poolVars, clientVars>>

\* Lines 374-377: a failed final update ends the job.
JobUpdateFinal(id) ==
    /\ job[id].pc = "updFinal"
    /\ \E ok \in BOOLEAN :
         /\ UpdateRow(id, ok)
         /\ job' = [job EXCEPT ![id] =
                [Written(@, ok) EXCEPT !.pc = IF ok THEN "progressCompleted" ELSE "exit"]]
    /\ UNCHANGED <<analyzerVars, nextID, mem, call, executed, llmLoops, cancelled, schedVars, collectorVars, poolVars, clientVars>>

\* Line 379.
JobProgressCompleted(id) ==
    /\ job[id].pc = "progressCompleted"
    /\ progress' = <<"Completed">>
    /\ job' = [job EXCEPT ![id].pc = "exit"]
    /\ UNCHANGED <<running, currentSnapshotID, previousSnapshotID, rows, nextID,
                   mem, call, executed, llmLoops, cancelled, schedVars, collectorVars, poolVars, clientVars>>

\* completeAnalysisWithError's update without the `return` after it: the
\* job falls through to the final block.
JobFailUpdateNoReturn(id) ==
    /\ job[id].pc = "failUpdate"
    /\ \E ok \in BOOLEAN :
         /\ UpdateRow(id, ok)
         /\ job' = [job EXCEPT ![id] = [Written(@, ok) EXCEPT !.pc = "final"]]
    /\ UNCHANGED <<analyzerVars, nextID, mem, call, executed, llmLoops, cancelled, schedVars, collectorVars, poolVars, clientVars>>

\* completeAnalysisWithError, lines 151-153: a failed update is logged.
JobFailUpdate(id) ==
    /\ job[id].pc = "failUpdate"
    /\ \E ok \in BOOLEAN :
         /\ UpdateRow(id, ok)
         /\ job' = [job EXCEPT ![id] = [Written(@, ok) EXCEPT !.pc = "exit"]]
    /\ UNCHANGED <<analyzerVars, nextID, mem, call, executed, llmLoops, cancelled, schedVars, collectorVars, poolVars, clientVars>>

\* The deferred function that leaves the guard set.
StatusAfterJobKeepsGuard ==
    [running |-> TRUE, currentSnapshotID |-> 0, previousSnapshotID |-> 0,
     progress |-> <<>>]

\* Lines 231-234: the four fields the deferred function assigns.
StatusAfterJob ==
    [running |-> FALSE, currentSnapshotID |-> 0, previousSnapshotID |-> 0,
     progress |-> <<>>]

\* Lines 229-236, the deferred function: the goroutine ends.
JobDefer(id) ==
    /\ job[id].pc = "exit"
    /\ running' = StatusAfterJob.running
    /\ currentSnapshotID' = StatusAfterJob.currentSnapshotID
    /\ previousSnapshotID' = StatusAfterJob.previousSnapshotID
    /\ progress' = StatusAfterJob.progress
    /\ job' = [job EXCEPT ![id] = IdleJob]
    /\ executed' = [executed EXCEPT ![id] = <<>>]
    /\ mem' = IF \E c \in Callers : HeldByCall(c, id)
              THEN mem
              ELSE [mem EXCEPT ![id] = NoObj]
    /\ UNCHANGED <<rows, nextID, call, llmLoops, cancelled, schedVars, collectorVars, poolVars, clientVars>>

JobStep(id) ==
    \/ JobSetRunning(id)
    \/ JobUpdateRunning(id)
    \/ JobBuildPrompt(id)
    \/ JobCreateChat(id)
    \/ JobSendInitial(id)
    \/ JobLoop(id)
    \/ JobExecTool(id)
    \/ JobUpdateTool(id)
    \/ JobSendResult(id)
    \/ JobFinalize(id)
    \/ JobUpdateFinal(id)
    \/ JobProgressCompleted(id)
    \/ JobFailUpdate(id)
    \/ JobDefer(id)

(***************************************************************************)
(* The context: ctx of the caller, cancelled on shutdown                   *)
(***************************************************************************)
\* cancel() of the context the process hands to its requests and scans.
\* runAnalysis works with context.Background() (line 227): none of its steps
\* reads the caller's context.
Cancel ==
    /\ ~cancelled
    /\ cancelled' = TRUE
    /\ UNCHANGED <<analyzerVars, rows, nextID, mem, call, job, executed, llmLoops,
                   collectorVars, poolVars, clientVars, schedVars>>

(***************************************************************************)
(* Collector.Collect                                                       *)
(***************************************************************************)
NoSnapshot == [status |-> "absent"]
\* time.Second in ticks of the wall clock.
TicksPerSecond == 2
NoScanRet == [kind |-> "none"]
\* The locals of Collect, collectService and collectMetric; pc "idle": no
\* scan is running.
IdleScan ==
    [pc |-> "idle", snapshotID |-> 0, serviceInfos |-> <<>>, i |-> 0,
     totalSeries |-> 0, metricInfos |-> <<>>, m |-> 0, serviceSnapshotID |-> 0,
     labelInfos |-> <<>>, l |-> 0, metricSnapshotID |-> 0, ret |-> NoScanRet,
     collectedAt |-> 0, resume |-> "none", err |-> FALSE]

\* prometheus.ServiceInfo; the service of rank k has k series.
ServiceInfo(k) == [name |-> k, seriesCount |-> k]
\* prometheus.MetricInfo
MetricInfo(k) == [name |-> k, seriesCount |-> 1]
\* prometheus.LabelInfo
LabelInfo(k) == [name |-> k]

\* What DiscoverServices may return: up to MaxServices services, sorted by
\* series count descending or, from a backend that sorts otherwise, ascending.
DiscoveryResults ==
    {[k \in 1 .. n |-> ServiceInfo(MaxServices + 1 - k)] : n \in 0 .. MaxServices}
        \cup {[k \in 1 .. n |-> ServiceInfo(k)] : n \in 0 .. MaxServices}
\* What GetMetricsForService and GetLabelsForMetric may return.
MetricResults == {[k \in 1 .. n |-> MetricInfo(k)] : n \in 0 .. MaxMetrics}
LabelResults == {<<>>, <<LabelInfo(1)>>}

\* The snapshot ids: 1 is the snapshot of an earlier scan, 2 the id the
\* snapshots repository has left to hand out.
ScanIDs == {1, 2}

\* The entries of the trace: a call of the progress sink, an insert into a
\* table (with the id of the new row and of its parent), the update of the
\* snapshot row.
Progress(phase, current, total, detail) ==
    [kind |-> "progress", phase |-> phase, current |-> current, total |-> total,
     detail |-> detail]
Inserted(table, id, parent) ==
    [kind |-> "insert", table |-> table, id |-> id, parent |-> parent]
Updated(id, totalServices, totalSeries) ==
    [kind |-> "update", id |-> id, totalServices |-> totalServices,
     totalSeries |-> totalSeries]

\* A snapshot row that is inserted with totals.
NewSnapshotWithTotals(collectedAt) ==
    [collectedAt |-> collectedAt, totalServices |-> 1, totalSeries |-> 1]

\* Lines 65-67: the snapshot to insert has CollectedAt only, its totals
\* are zero.
NewSnapshot(collectedAt) ==
    [collectedAt |-> collectedAt, totalServices |-> 0, totalSeries |-> 0]

\* The "scanning" event that counts the services from zero.
ScanningEventFromZero(sc) ==
    Progress("scanning", sc.i, Len(sc.serviceInfos), sc.serviceInfos[sc.i + 1].name)

\* Line 90: progress("scanning", i+1, len(serviceInfos), svc.Name).
ScanningEvent(sc) ==
    Progress("scanning", sc.i + 1, Len(sc.serviceInfos), sc.serviceInfos[sc.i + 1].name)

\* Collect has returned: its locals are gone.
ScanReturned(kind) ==
    [IdleScan EXCEPT !.pc = "returned", !.snapshotID = scan.snapshotID,
                     !.ret = [kind |-> kind]]

\* Line 55: start.Truncate(time.Second).
Truncate(t) == t - (t % TicksPerSecond)

\* The snapshots table that lets two rows share their collected_at.
CollectedAtNeverTaken(tbl, t) == FALSE

\* collected_at TIMESTAMP NOT NULL UNIQUE: a row with this collected_at
\* exists already.
CollectedAtTaken(tbl, t) ==
    \E id \in ScanIDs : tbl[id] # NoSnapshot /\ tbl[id].collectedAt = t

\* Lines 53-62: the clock is read, then the sink is called with the
\* "discovering" event; Collect waits for the call to return.
CollectStart ==
    /\ scan.pc = "idle"
    /\ \E id \in ScanIDs : snapshotTable[id] = NoSnapshot
    /\ scan' = [scan EXCEPT !.pc = "sink", !.resume = "createSnapshot",
                            !.collectedAt = Truncate(now)]
    /\ trace' = <<Progress("discovering", 0, 0, "Discovering services...")>>
    /\ UNCHANGED <<analyzerVars, rows, nextID, mem, call, job, executed, llmLoops,
                   cancelled, schedVars, now, poolVars, clientVars, snapshotTable, serviceTable, metricTable, labelTable>>

\* The progress callback returns; Collect goes on after the call.
SinkReturn ==
    /\ scan.pc = "sink"
    /\ scan' = [scan EXCEPT !.pc = scan.resume, !.resume = "none"]
    /\ UNCHANGED <<analyzerVars, rows, nextID, mem, call, job, executed, llmLoops,
                   cancelled, schedVars, now, poolVars, clientVars, snapshotTable, serviceTable, metricTable, labelTable,
                   trace>>

\* Lines 64-72: the insert of the snapshot row with zero totals.
CollectCreateSnapshot ==
    /\ scan.pc = "createSnapshot"
    /\ \E fails \in MayFail :
         IF fails \/ CollectedAtTaken(snapshotTable, scan.collectedAt)
         THEN /\ scan' = ScanReturned("error")
              /\ UNCHANGED <<snapshotTable, trace>>
         ELSE LET id == CHOOSE x \in ScanIDs :
                            /\ snapshotTable[x] = NoSnapshot
                            /\ \A y \in ScanIDs : snapshotTable[y] = NoSnapshot => x <= y
              IN /\ snapshotTable' = [snapshotTable EXCEPT ![id] =
                                         NewSnapshot(scan.collectedAt)]
                 /\ scan' = [scan EXCEPT !.pc = "discover", !.snapshotID = id]
                 /\ trace' = Append(trace, Inserted("snapshot", id, 0))
    /\ UNCHANGED <<analyzerVars, rows, nextID, mem, call, job, executed, llmLoops,
                   cancelled, schedVars, now, poolVars, clientVars, serviceTable, metricTable, labelTable>>

\* The check that lets a failed discovery pass.
DiscoverErrIgnored(sc) == FALSE

\* Line 76: if err != nil.
DiscoverErr(sc) == sc.err

\* Line 75: serviceInfos, err := c.client.DiscoverServices(ctx, c.serviceLabel).
CollectDiscover ==
    /\ scan.pc = "discover"
    /\ \E fails \in MayFail :
         IF fails
         THEN scan' = [scan EXCEPT !.pc = "discovered", !.err = TRUE]
         ELSE \E infos \in DiscoveryResults :
                scan' = [scan EXCEPT !.pc = "discovered", !.serviceInfos = infos]
    /\ UNCHANGED <<analyzerVars, rows, nextID, mem, call, job, executed, llmLoops,
                   cancelled, schedVars, now, poolVars, clientVars, snapshotTable, serviceTable, metricTable, labelTable,
                   trace>>

\* Lines 76-82: the error of the discovery is returned as it is.
CollectDiscovered ==
    /\ scan.pc = "discovered"
    /\ scan' = IF DiscoverErr(scan)
               THEN [ScanReturned("error") EXCEPT
                        !.ret = [kind |-> "error", of |-> "DiscoverServices"]]
               ELSE [scan EXCEPT !.pc = "loop", !.i = 0, !.totalSeries = 0,
                                 !.err = FALSE]
    /\ UNCHANGED <<analyzerVars, rows, nextID, mem, call, job, executed, llmLoops,
                   cancelled, schedVars, now, poolVars, clientVars, snapshotTable, serviceTable, metricTable, labelTable,
                   trace>>

\* Lines 85-91: the loop over the services, the cancellation check and the
\* "scanning" event.
CollectLoop ==
    /\ scan.pc = "loop"
    /\ IF scan.i >= Len(scan.serviceInfos)
       THEN /\ scan' = [scan EXCEPT !.pc = "update"]
            /\ UNCHANGED trace
       ELSE IF cancelled
       THEN /\ scan' = ScanReturned("error")
            /\ UNCHANGED trace
       ELSE /\ scan' = [scan EXCEPT !.pc = "sink", !.resume = "getMetrics"]
            /\ trace' = Append(trace, ScanningEvent(scan))
    /\ UNCHANGED <<analyzerVars, rows, nextID, mem, call, job, executed, llmLoops,
                   cancelled, schedVars, now, poolVars, clientVars, snapshotTable, serviceTable, metricTable, labelTable>>

\* Lines 94-97: collectService returned an error; on to the next service.
NextService(sc) ==
    [sc EXCEPT !.pc = "loop", !.i = @ + 1, !.metricInfos = <<>>, !.m = 0,
               !.serviceSnapshotID = 0, !.labelInfos = <<>>, !.l = 0,
               !.metricSnapshotID = 0]

\* The loop that ends the scan when one service fails.
ServiceFailedAborts(sc) == ScanReturned("error")

\* Lines 94-97.
ServiceFailed(sc) == NextService(sc)

\* Line 99 without the addition.
ServiceCollectedNotCounted(sc) == NextService(sc)

\* Line 99: collectService returned the service snapshot.
ServiceCollected(sc) ==
    [NextService(sc) EXCEPT !.totalSeries =
        @ + serviceTable[sc.serviceSnapshotID].totalSeries]

\* Lines 128-131.
ServiceGetMetrics ==
    /\ scan.pc = "getMetrics"
    /\ \E fails \in MayFail :
         IF fails
         THEN scan' = ServiceFailed(scan)
         ELSE \E infos \in MetricResults :
                scan' = [scan EXCEPT !.pc = "createService", !.metricInfos = infos]
    /\ UNCHANGED <<analyzerVars, rows, nextID, mem, call, job, executed, llmLoops,
                   cancelled, schedVars, now, poolVars, clientVars, snapshotTable, serviceTable, metricTable, labelTable,
                   trace>>

\* Lines 134-145.
ServiceCreate ==
    /\ scan.pc = "createService"
    /\ \E fails \in MayFail :
         IF fails
         THEN /\ scan' = ServiceFailed(scan)
              /\ UNCHANGED <<serviceTable, trace>>
         ELSE LET svc == scan.serviceInfos[scan.i + 1]
                  id == Len(serviceTable) + 1
              IN /\ serviceTable' = Append(serviceTable,
                        [snapshotID |-> scan.snapshotID, serviceName |-> svc.name,
                         totalSeries |-> svc.seriesCount,
                         metricCount |-> Len(scan.metricInfos)])
                 /\ scan' = [scan EXCEPT !.pc = "metricLoop",
                                         !.serviceSnapshotID = id, !.m = 0]
                 /\ trace' = Append(trace, Inserted("service", id, scan.snapshotID))
    /\ UNCHANGED <<analyzerVars, rows, nextID, mem, call, job, executed, llmLoops,
                   cancelled, schedVars, now, poolVars, clientVars, snapshotTable, metricTable, labelTable>>

\* Lines 148-159 and 99: the loop over the metrics and its cancellation
\* check; at its end collectService returns the service snapshot.
ServiceMetricLoop ==
    /\ scan.pc = "metricLoop"
    /\ scan' = IF scan.m >= Len(scan.metricInfos) THEN ServiceCollected(scan)
               ELSE IF cancelled THEN ServiceFailed(scan)
               ELSE [scan EXCEPT !.pc = "getLabels"]
    /\ UNCHANGED <<analyzerVars, rows, nextID, mem, call, job, executed, llmLoops,
                   cancelled, schedVars, now, poolVars, clientVars, snapshotTable, serviceTable, metricTable, labelTable,
                   trace>>

\* Lines 164-169: without its labels the metric is stored all the same.
MetricGetLabels ==
    /\ scan.pc = "getLabels"
    /\ \E fails \in MayFail :
         \E infos \in (IF fails THEN {<<>>} ELSE LabelResults) :
            scan' = [scan EXCEPT !.pc = "createMetric", !.labelInfos = infos]
    /\ UNCHANGED <<analyzerVars, rows, nextID, mem, call, job, executed, llmLoops,
                   cancelled, schedVars, now, poolVars, clientVars, snapshotTable, serviceTable, metricTable, labelTable,
                   trace>>

\* Lines 153-156: on to the next metric.
NextMetric(sc) ==
    [sc EXCEPT !.pc = "metricLoop", !.m = @ + 1, !.labelInfos = <<>>, !.l = 0,
               !.metricSnapshotID = 0]

\* Lines 172-182.
MetricCreate ==
    /\ scan.pc = "createMetric"
    /\ \E fails \in MayFail :
         IF fails
         THEN /\ scan' = NextMetric(scan)
              /\ UNCHANGED <<metricTable, trace>>
         ELSE LET metric == scan.metricInfos[scan.m + 1]
                  id == Len(metricTable) + 1
              IN /\ metricTable' = Append(metricTable,
                        [serviceSnapshotID |-> scan.serviceSnapshotID,
                         metricName |-> metric.name,
                         seriesCount |-> metric.seriesCount,
                         labelCount |-> Len(scan.labelInfos)])
                 /\ scan' = [scan EXCEPT !.pc = "labelLoop",
                                         !.metricSnapshotID = id, !.l = 0]
                 /\ trace' = Append(trace, Inserted("metric", id, scan.serviceSnapshotID))
    /\ UNCHANGED <<analyzerVars, rows, nextID, mem, call, job, executed, llmLoops,
                   cancelled, schedVars, now, poolVars, clientVars, snapshotTable, serviceTable, labelTable>>

\* Lines 185-199: the labels of the metric; a label that cannot be stored
\* is skipped.
MetricStoreLabel ==
    /\ scan.pc = "labelLoop"
    /\ IF scan.l >= Len(scan.labelInfos)
       THEN /\ scan' = NextMetric(scan)
            /\ UNCHANGED <<labelTable, trace>>
       ELSE \E fails \in MayFail :
              IF fails
              THEN /\ scan' = [scan EXCEPT !.l = @ + 1]
                   /\ UNCHANGED <<labelTable, trace>>
              ELSE LET id == Len(labelTable) + 1
                   IN /\ labelTable' = Append(labelTable,
                             [metricSnapshotID |-> scan.metricSnapshotID,
                              labelName |-> scan.labelInfos[scan.l + 1].name])
                      /\ scan' = [scan EXCEPT !.l = @ + 1]
                      /\ trace' = Append(trace,
                                      Inserted("label", id, scan.metricSnapshotID))
    /\ UNCHANGED <<analyzerVars, rows, nextID, mem, call, job, executed, llmLoops,
                   cancelled, schedVars, now, poolVars, clientVars, snapshotTable, serviceTable, metricTable>>

\* Line 103: snapshot.TotalServices = len(serviceInfos).
TotalServices(sc) == Len(sc.serviceInfos)

\* Lines 103-124: the update of the snapshot row with the totals.
CollectUpdate ==
    /\ scan.pc = "update"
    /\ \E fails \in MayFail :
         IF fails
         THEN /\ scan' = ScanReturned("error")
              /\ UNCHANGED <<snapshotTable, trace>>
         ELSE /\ snapshotTable' = [snapshotTable EXCEPT ![scan.snapshotID] =
                    [@ EXCEPT !.totalServices = TotalServices(scan),
                              !.totalSeries = scan.totalSeries]]
              /\ scan' = [ScanReturned("ok") EXCEPT
                            !.ret = [kind |-> "ok", snapshotID |-> scan.snapshotID,
                                     totalServices |-> TotalServices(scan),
                                     totalSeries |-> scan.totalSeries]]
              /\ trace' = Append(trace, Updated(scan.snapshotID, TotalServices(scan),
                                                scan.totalSeries))
    /\ UNCHANGED <<analyzerVars, rows, nextID, mem, call, job, executed, llmLoops,
                   cancelled, schedVars, now, poolVars, clientVars, serviceTable, metricTable, labelTable>>

\* The caller has the result of Collect; the next scan may start.
CollectEnd ==
    /\ scan.pc = "returned"
    /\ scan' = IdleScan
    /\ UNCHANGED <<analyzerVars, rows, nextID, mem, call, job, executed, llmLoops,
                   cancelled, schedVars, now, poolVars, clientVars, snapshotTable, serviceTable, metricTable, labelTable,
                   trace>>

\* A tick of the wall clock.  Collect reads the clock at its start only,
\* so ticks during a scan are left out.
Tick ==
    /\ scan.pc = "idle"
    /\ now < MaxTime
    /\ now' = now + 1
    /\ UNCHANGED <<analyzerVars, rows, nextID, mem, call, job, executed, llmLoops,
                   cancelled, schedVars, poolVars, clientVars, snapshotTable, serviceTable, metricTable,
                   labelTable, scan, trace>>

CollectStep ==
    \/ CollectStart
    \/ CollectCreateSnapshot
    \/ CollectDiscover
    \/ CollectDiscovered
    \/ CollectLoop
    \/ ServiceGetMetrics
    \/ ServiceCreate
    \/ ServiceMetricLoop
    \/ MetricGetLabels
    \/ MetricCreate
    \/ MetricStoreLabel
    \/ CollectUpdate
    \/ CollectEnd

\* The tables hold the tree of an earlier, completed scan: snapshot 1,
\* collected at tick 0, with one service, its metric and the metric's label.
InitTables ==
    /\ snapshotTable = [id \in ScanIDs |->
                            IF id = 1 THEN [collectedAt |-> 0, totalServices |-> 1,
                                            totalSeries |-> 2]
                            ELSE NoSnapshot]
    /\ serviceTable = <<[snapshotID |-> 1, serviceName |-> 1, totalSeries |-> 2,
                         metricCount |-> 1]>>
    /\ metricTable = <<[serviceSnapshotID |-> 1, metricName |-> 1, seriesCount |-> 1,
                        labelCount |-> 1]>>
    /\ labelTable = <<[metricSnapshotID |-> 1, labelName |-> 1]>>
    /\ scan = IdleScan
    /\ trace = <<>>

\* The earlier scan was made in an earlier second.
InitCollector ==
    /\ InitTables
    /\ now = TicksPerSecond

(***************************************************************************)
(* PrometheusCollector.Collect: the concurrent collector                   *)
(***************************************************************************)
\* The metric names, by index; the metric at index k has cardinality k.
Names == 1 .. MaxNames
NameLists == {[k \in 1 .. n |-> k] : n \in 0 .. MaxNames}
CardinalityOf(k) == k

IdleCollect == [pc |-> "idle", names |-> <<>>, i |-> 0, ret |-> "none"]
NoWorker == [pc |-> "none", failed |-> FALSE, tmp |-> 0]
EmptyResult == [TotalMetrics |-> 0, TotalCardinality |-> 0, Errors |-> 0]

\* The channel that never refuses a send.
SemNeverFull == FALSE

\* Line 139: sem := make(chan struct{}, c.concurrency); a send blocks while
\* the channel holds concurrency tokens.
SemFull == sem >= Concurrency

\* The mutex that lets every Lock through.
MutexAlwaysFree == TRUE

\* Lines 171, 177: mu.Lock() goes through when nobody holds mu.
MutexFree == mu = 0

\* The worker that leaves without giving its slot back after an error.
WorkerExitKeepsSlotOnError(failed) == IF failed THEN "done" ELSE "release"

\* Lines 165-166: the deferred calls run on every return, the last
\* deferred first: <-sem, then wg.Done().
WorkerExit(failed) == "release"

\* Lines 141-150: saveBatch under the context of Collect.
SaveBatch(n, fails) ==
    IF n = 0 THEN [err |-> FALSE, batch |-> 0, saved |-> saved]
    ELSE IF fails THEN [err |-> TRUE, batch |-> n, saved |-> saved]
    ELSE [err |-> FALSE, batch |-> 0, saved |-> saved + n]

\* Lines 118-139: GetAllMetricNames, the result and the locals.
PoolStart ==
    /\ collect.pc = "idle"
    /\ \E fails \in MayFail, names \in NameLists :
         collect' = IF fails THEN [IdleCollect EXCEPT !.pc = "returned", !.ret = "error"]
                    ELSE [IdleCollect EXCEPT !.pc = "loop", !.names = names]
    /\ UNCHANGED <<analyzerVars, rows, nextID, mem, call, job, executed, llmLoops,
                   cancelled, schedVars, collectorVars, clientVars, sem, wg, mu, batch, saved, collectResult, workers>>

\* Lines 152-161: the head of the dispatch loop, up to wg.Add(1).
PoolLoop ==
    /\ collect.pc = "loop"
    /\ IF collect.i >= Len(collect.names) \/ cancelled
       THEN collect' = [collect EXCEPT !.pc = "wait"] /\ wg' = wg
       ELSE collect' = [collect EXCEPT !.pc = "acquire"] /\ wg' = wg + 1
    /\ UNCHANGED <<analyzerVars, rows, nextID, mem, call, job, executed, llmLoops,
                   cancelled, schedVars, collectorVars, clientVars, sem, mu, batch, saved, collectResult, workers>>

\* Lines 162-164: sem <- struct{}{}, then go func(metricName).
PoolAcquire ==
    /\ collect.pc = "acquire"
    /\ ~SemFull
    /\ sem' = sem + 1
    /\ workers' = [workers EXCEPT ![collect.names[collect.i + 1]] =
                      [NoWorker EXCEPT !.pc = "collect"]]
    /\ collect' = [collect EXCEPT !.pc = "loop", !.i = collect.i + 1]
    /\ UNCHANGED <<analyzerVars, rows, nextID, mem, call, job, executed, llmLoops,
                   cancelled, schedVars, collectorVars, clientVars, wg, mu, batch, saved, collectResult>>

\* Line 202: wg.Wait().
PoolWait ==
    /\ collect.pc = "wait"
    /\ wg = 0
    /\ collect' = [collect EXCEPT !.pc = "saveBatch"]
    /\ UNCHANGED <<analyzerVars, rows, nextID, mem, call, job, executed, llmLoops,
                   cancelled, schedVars, collectorVars, clientVars, sem, wg, mu, batch, saved, collectResult, workers>>

\* Lines 204-206: the last saveBatch.
PoolSaveBatch ==
    /\ collect.pc = "saveBatch"
    /\ \E fails \in MayFail :
         LET r == SaveBatch(batch, fails)
         IN /\ batch' = r.batch
            /\ saved' = r.saved
            /\ collect' = IF r.err THEN [collect EXCEPT !.pc = "returned", !.ret = "error"]
                          ELSE [collect EXCEPT !.pc = "saveSnapshot"]
    /\ UNCHANGED <<analyzerVars, rows, nextID, mem, call, job, executed, llmLoops,
                   cancelled, schedVars, collectorVars, clientVars, sem, wg, mu, collectResult, workers>>

\* Lines 208-230: snapRepo.Save and the return of the result.
PoolSaveSnapshot ==
    /\ collect.pc = "saveSnapshot"
    /\ \E fails \in MayFail :
         collect' = [collect EXCEPT !.pc = "returned",
                                    !.ret = IF fails THEN "error" ELSE "ok"]
    /\ UNCHANGED <<analyzerVars, rows, nextID, mem, call, job, executed, llmLoops,
                   cancelled, schedVars, collectorVars, clientVars, sem, wg, mu, batch, saved, collectResult, workers>>

PoolStep ==
    \/ PoolStart
    \/ PoolLoop
    \/ PoolAcquire
    \/ PoolWait
    \/ PoolSaveBatch
    \/ PoolSaveSnapshot

\* Line 168: collectMetric(ctx, metricName, collectedAt).
WorkerCollect(w) ==
    /\ workers[w].pc = "collect"
    /\ \E fails \in MayFail :
         workers' = [workers EXCEPT ![w].pc = "lock", ![w].failed = fails]
    /\ UNCHANGED <<analyzerVars, rows, nextID, mem, call, job, executed, llmLoops,
                   cancelled, schedVars, collectorVars, clientVars, collect, sem, wg, mu, batch, saved, collectResult>>

\* Lines 171, 177: mu.Lock(), and the read of the field the worker is
\* about to update.
WorkerLock(w) ==
    /\ workers[w].pc = "lock"
    /\ MutexFree
    /\ mu' = w
    /\ workers' = [workers EXCEPT ![w].pc = "write",
                                  ![w].tmp = IF workers[w].failed THEN collectResult.Errors
                                             ELSE collectResult.TotalMetrics]
    /\ UNCHANGED <<analyzerVars, rows, nextID, mem, call, job, executed, llmLoops,
                   cancelled, schedVars, collectorVars, clientVars, collect, sem, wg, batch, saved, collectResult>>

\* Lines 172-174 (error) and 178-199 (success): the writes to the shared
\* result and batch, saveBatch when the batch is full, mu.Unlock(), and the
\* return into the deferred calls.
WorkerWrite(w) ==
    /\ workers[w].pc = "write"
    /\ IF workers[w].failed
       THEN /\ collectResult' = [collectResult EXCEPT !.Errors = workers[w].tmp + 1]
            /\ UNCHANGED <<batch, saved>>
       ELSE /\ collectResult' = [collectResult EXCEPT
                             !.TotalMetrics = workers[w].tmp + 1,
                             !.TotalCardinality = @ + CardinalityOf(w)]
            /\ IF batch + 1 >= BatchSize
               THEN \E fails \in MayFail :
                       /\ batch' = SaveBatch(batch + 1, fails).batch
                       /\ saved' = SaveBatch(batch + 1, fails).saved
               ELSE batch' = batch + 1 /\ saved' = saved
    /\ mu' = 0
    /\ workers' = [workers EXCEPT ![w].pc = WorkerExit(workers[w].failed)]
    /\ UNCHANGED <<analyzerVars, rows, nextID, mem, call, job, executed, llmLoops,
                   cancelled, schedVars, collectorVars, clientVars, collect, sem, wg>>

\* Line 166: defer func() { <-sem }().
WorkerRelease(w) ==
    /\ workers[w].pc = "release"
    /\ sem' = sem - 1
    /\ workers' = [workers EXCEPT ![w].pc = "done"]
    /\ UNCHANGED <<analyzerVars, rows, nextID, mem, call, job, executed, llmLoops,
                   cancelled, schedVars, collectorVars, clientVars, collect, wg, mu, batch, saved, collectResult>>

\* Line 165: defer wg.Done(); the goroutine ends.
WorkerDone(w) ==
    /\ workers[w].pc = "done"
    /\ wg' = wg - 1
    /\ workers' = [workers EXCEPT ![w].pc = "exited"]
    /\ UNCHANGED <<analyzerVars, rows, nextID, mem, call, job, executed, llmLoops,
                   cancelled, schedVars, collectorVars, clientVars, collect, sem, mu, batch, saved, collectResult>>

WorkerStep(w) ==
    \/ WorkerCollect(w)
    \/ WorkerLock(w)
    \/ WorkerWrite(w)
    \/ WorkerRelease(w)
    \/ WorkerDone(w)

InitPool ==
    /\ collect = IdleCollect
    /\ sem = 0
    /\ wg = 0
    /\ mu = 0
    /\ batch = 0
    /\ saved = 0
    /\ collectResult = EmptyResult
    /\ workers = [w \in Names |-> NoWorker]

(***************************************************************************)
(* The metrics client: doRequestWithRetry, GetMetricCardinality            *)
(***************************************************************************)
NilError == [kind |-> "nil"]
IdleClient == [pc |-> "idle", attempt |-> 0, lastErr |-> NilError, ret |-> NilError]

\* ctx.Err() of a cancelled context, and an error that wraps another (%w).
ContextCanceled == [kind |-> "context canceled"]
Wrap(kind, err) == [kind |-> kind, wraps |-> err]

\* The answers of the backend: an HTTP status code and the status and the
\* error text of the envelope; or no answer at all.
Answers ==
    {[transport |-> TRUE, code |-> c, status |-> st,
      error |-> IF st = "error" THEN "bad query" ELSE ""] :
        c \in {200, 400, 503}, st \in {"success", "error"}}
    \cup {[transport |-> FALSE, cause |-> "connection refused"]}

\* httpClient.Do under a cancelled context.
Aborted == [transport |-> FALSE, cause |-> "context canceled"]

\* The backoff that is not shifted by one attempt.
BackoffFromAttempt(attempt) == 2 ^ attempt

\* Line 199: time.Duration(1<<uint(attempt-1)) * time.Second, in seconds.
Backoff(attempt) == 2 ^ (attempt - 1)

\* Lines 201-205: the select takes <-ctx.Done() when the context is
\* cancelled and <-time.After(backoff) when the time has passed.
Select == IF cancelled THEN {"done"} ELSE {"timer"}

\* Lines 220-248: the error of doSingleRequest, or NilError for a 2xx answer.
SingleRequestError(a) ==
    IF ~a.transport
    THEN Wrap("request failed",
              IF a.cause = "context canceled" THEN ContextCanceled
              ELSE [kind |-> a.cause])
    ELSE IF a.code < 200 \/ a.code >= 300
    THEN [kind |-> "unexpected status code", code |-> a.code, body |-> a.error]
    ELSE NilError

\* Lines 78-90: what GetMetricCardinality makes of the result of doRequest.
CardinalityResult(a, err) ==
    IF err # NilError THEN Wrap("failed to get cardinality", err)
    ELSE IF a.status # "success"
    THEN [kind |-> "prometheus returned error", text |-> a.error]
    ELSE NilError

\* Lines 74-77, 189-196: GetMetricCardinality calls doRequest.
ClientCall ==
    /\ client.pc = "idle"
    /\ client' = [IdleClient EXCEPT !.pc = "attempt"]
    /\ UNCHANGED <<analyzerVars, rows, nextID, mem, call, job, executed, llmLoops,
                   cancelled, schedVars, collectorVars, poolVars, sent, waits, received, lookup>>

\* Lines 208-217: a failed attempt; after the last one the loop ends.
AttemptFailed(a) ==
    LET err == SingleRequestError(a)
    IN IF client.attempt + 1 < maxRetries
       THEN [client EXCEPT !.pc = "backoff", !.attempt = @ + 1, !.lastErr = err]
       ELSE [client EXCEPT
                !.pc = "returned", !.attempt = @ + 1, !.lastErr = err,
                !.ret = CardinalityResult(a, Wrap("request failed after 3 attempts", err))]

\* Lines 208, 220-233: doSingleRequest builds the request and hands it to
\* httpClient.Do, which sends nothing under a cancelled context.
AttemptSend ==
    /\ client.pc = "attempt"
    /\ IF cancelled
       THEN /\ client' = AttemptFailed(Aborted)
            /\ received' = Append(received, Aborted)
            /\ sent' = sent
       ELSE /\ client' = [client EXCEPT !.pc = "inflight"]
            /\ sent' = sent + 1
            /\ received' = received
    /\ UNCHANGED <<analyzerVars, rows, nextID, mem, call, job, executed, llmLoops,
                   cancelled, schedVars, collectorVars, poolVars, waits, lookup>>

\* Lines 233-247, 209-214: the answer arrives, or the context is cancelled
\* first; a 2xx answer ends doRequest.
AttemptReturn ==
    /\ client.pc = "inflight"
    /\ \E a \in (IF cancelled THEN {Aborted} ELSE Answers) :
         /\ received' = Append(received, a)
         /\ client' = IF SingleRequestError(a) = NilError
                      THEN [client EXCEPT !.pc = "returned",
                                          !.ret = CardinalityResult(a, NilError)]
                      ELSE AttemptFailed(a)
    /\ UNCHANGED <<analyzerVars, rows, nextID, mem, call, job, executed, llmLoops,
                   cancelled, schedVars, collectorVars, poolVars, sent, waits, lookup>>

\* Lines 197-206: the wait before the next attempt.
ClientBackoff ==
    /\ client.pc = "backoff"
    /\ \E c \in Select :
         IF c = "done"
         THEN /\ client' = [client EXCEPT
                               !.pc = "returned",
                               !.ret = CardinalityResult(Aborted, ContextCanceled)]
              /\ waits' = waits
         ELSE /\ client' = [client EXCEPT !.pc = "attempt"]
              /\ waits' = Append(waits, Backoff(client.attempt))
    /\ UNCHANGED <<analyzerVars, rows, nextID, mem, call, job, executed, llmLoops,
                   cancelled, schedVars, collectorVars, poolVars, sent, received, lookup>>

ClientStep ==
    \/ ClientCall
    \/ AttemptSend
    \/ AttemptReturn
    \/ ClientBackoff

(***************************************************************************)
(* The metrics client: GetLabelsForMetric                                  *)
(***************************************************************************)
\* A series: its metric name, the service label and the labels path, code.
Values == 1 .. MaxValue
SeriesOf(p, c) ==
    [l \in {"__name__", "service", "path", "code"} |->
        IF l = "path" THEN p ELSE IF l = "code" THEN c ELSE 1]
SeriesSets == SUBSET {SeriesOf(p, c) : p \in Values, c \in 1 .. 2}
SampleLimits == 0 .. MaxLimit

\* The orders in which a range over a map with the keys S may run.
Orders(S) ==
    {f \in [1 .. Cardinality(S) -> S] : \A i, j \in DOMAIN f : f[i] = f[j] => i = j}

\* Lines 419-432: the values of every label but __name__ and the service
\* label.
LabelValues(series, serviceLabel) ==
    LET names == UNION {DOMAIN s : s \in series} \ {"__name__", serviceLabel}
    IN [n \in names |-> {s[n] : s \in series}]

\* Lines 438-444: the value is appended before the length is compared.
RECURSIVE Samples(_, _, _, _)
Samples(order, k, limit, samples) ==
    IF k > Len(order) THEN samples
    ELSE LET next == Append(samples, order[k])
         IN IF Len(next) >= limit THEN next
            ELSE Samples(order, k + 1, limit, next)

\* Line 446: sort.Strings(samples).
RECURSIVE SortStrings(_)
SortStrings(xs) ==
    IF xs = <<>> THEN <<>>
    ELSE LET least == CHOOSE i \in DOMAIN xs : \A j \in DOMAIN xs : xs[i] <= xs[j]
         IN <<xs[least]>> \o
            SortStrings([j \in 1 .. Len(xs) - 1 |-> IF j < least THEN xs[j] ELSE xs[j + 1]])

\* Lines 448-452.
NewLabelInfo(name, order, limit) ==
    [Name |-> name, UniqueValues |-> Len(order),
     SampleValues |-> SortStrings(Samples(order, 1, limit, <<>>))]

\* Lines 436-458: the results the call may return: one range order per
\* map, the list sorted by UniqueValues, descending.
LabelInfosOf(series, serviceLabel, limit) ==
    LET lv == LabelValues(series, serviceLabel)
        choices == {f \in [DOMAIN lv -> UNION {Orders(lv[n]) : n \in DOMAIN lv}] :
                       \A n \in DOMAIN lv : f[n] \in Orders(lv[n])}
    IN UNION {{labels \in Orders({NewLabelInfo(n, f[n], limit) : n \in DOMAIN lv}) :
                  \A i, j \in DOMAIN labels :
                     i < j => labels[i].UniqueValues >= labels[j].UniqueValues} :
              f \in choices}

IdleLookup(series, limit) ==
    [pc |-> "idle", series |-> series, sampleLimit |-> limit, labels |-> <<>>,
     err |-> FALSE]

\* Lines 409-461.
GetLabelsForMetric ==
    /\ lookup.pc = "idle"
    /\ \E fails \in MayFail :
         IF fails
         THEN lookup' = [lookup EXCEPT !.pc = "returned", !.err = TRUE]
         ELSE \E labels \in LabelInfosOf(lookup.series, "service", lookup.sampleLimit) :
                 lookup' = [lookup EXCEPT !.pc = "returned", !.labels = labels]
    /\ UNCHANGED <<analyzerVars, rows, nextID, mem, call, job, executed, llmLoops,
                   cancelled, schedVars, collectorVars, poolVars, client, sent, waits, received>>

InitClient ==
    /\ client = IdleClient
    /\ sent = 0
    /\ waits = <<>>
    /\ received = <<>>

(***************************************************************************)
(* Specifications                                                          *)
(***************************************************************************)
\* The pairs requests name: a pair of existing snapshots, a pair whose
\* previous and a pair whose current snapshot does not exist.
PairInputs == {<<2, 1>>, <<2, 3>>, <<3, 1>>}
\* Two pairs of existing snapshots.
ValidPairs == {<<2, 1>>, <<1, 2>>}

InitAnalyzer ==
    /\ running = FALSE
    /\ currentSnapshotID = 0
    /\ previousSnapshotID = 0
    /\ progress = <<>>
    /\ rows = [id \in IDs |-> NoRow]
    /\ nextID = 1
    /\ mem = [id \in IDs |-> NoObj]
    /\ call = [c \in Callers |-> IdleCall]
    /\ job = [id \in IDs |-> IdleJob]
    /\ executed = [id \in IDs |-> <<>>]

(***************************************************************************)
(* The scheduler (scheduler.Scheduler).  Its implementation is not part of *)
(* the sources at hand.  The loop of Start, TriggerScan and the guard on   *)
(* the running flag are modelled from the specification of the scheduler;  *)
(* Stop is modelled from what the stabilization plan reports of            *)
(* scheduler/scheduler.go (items 9.1 and 9.4).                             *)
(***************************************************************************)
\* The handlers that call TriggerScan, the callers of Stop, and the most
\* scans a run starts.
TriggerCallers == {"t1", "t2"}
StopCallers == {"s1", "s2"}
MaxScans == 3

IdleTrigger == [pc |-> "idle", ret |-> "none"]

\* The guard that lets every scan start.
NeverAlreadyRunning(isRunning) == FALSE

\* The guard of the one entry point of a scan: a scan is running.
AlreadyRunning(isRunning) == isRunning

\* Start, on a tick of the periodic timer: a scan starts unless one is
\* running; the loop runs it to its end before it waits again.
SchedTick ==
    /\ loop = "waiting"
    /\ started < MaxScans
    /\ IF AlreadyRunning(schedRunning)
       THEN UNCHANGED <<schedRunning, collecting, loop, started>>
       ELSE /\ schedRunning' = TRUE
            /\ collecting' = collecting \cup {"loop"}
            /\ loop' = "scanning"
            /\ started' = started + 1
    /\ UNCHANGED <<analyzerVars, rows, nextID, mem, call, job, executed, llmLoops,
                   cancelled, collectorVars, poolVars, clientVars, triggers, stopCh,
                   stops>>

\* TriggerScan: AlreadyRunning while a scan is running; otherwise the scan
\* starts in a goroutine of its own and the call returns.
TriggerScan(c) ==
    /\ triggers[c].pc = "idle"
    /\ started < MaxScans
    /\ IF AlreadyRunning(schedRunning)
       THEN /\ triggers' = [triggers EXCEPT ![c] =
                               [pc |-> "returned", ret |-> "AlreadyRunning"]]
            /\ UNCHANGED <<schedRunning, collecting, started>>
       ELSE /\ schedRunning' = TRUE
            /\ collecting' = collecting \cup {c}
            /\ started' = started + 1
            /\ triggers' = [triggers EXCEPT ![c] =
                               [pc |-> "returned", ret |-> "started"]]
    /\ UNCHANGED <<analyzerVars, rows, nextID, mem, call, job, executed, llmLoops,
                   cancelled, collectorVars, poolVars, clientVars, loop, stopCh, stops>>

\* The handler has answered the request.
TriggerEnd(c) ==
    /\ triggers[c].pc = "returned"
    /\ triggers' = [triggers EXCEPT ![c] = IdleTrigger]
    /\ UNCHANGED <<analyzerVars, rows, nextID, mem, call, job, executed, llmLoops,
                   cancelled, collectorVars, poolVars, clientVars, schedRunning,
                   collecting, loop, started, stopCh, stops>>

\* Scanning -> Idle on scan completion: Collect has returned.
ScanDone(o) ==
    /\ o \in collecting
    /\ collecting' = collecting \ {o}
    /\ schedRunning' = FALSE
    /\ loop' = IF o = "loop" THEN "waiting" ELSE loop
    /\ UNCHANGED <<analyzerVars, rows, nextID, mem, call, job, executed, llmLoops,
                   cancelled, collectorVars, poolVars, clientVars, triggers, started,
                   stopCh, stops>>

\* Start, on <-s.stopCh: the loop ends.
LoopStop ==
    /\ loop = "waiting"
    /\ stopCh = "closed"
    /\ loop' = "stopped"
    /\ UNCHANGED <<analyzerVars, rows, nextID, mem, call, job, executed, llmLoops,
                   cancelled, collectorVars, poolVars, clientVars, schedRunning,
                   collecting, triggers, started, stopCh, stops>>

\* Stop: close(s.stopCh) with no guard, which panics on a closed channel;
\* Stop returns at once, whether or not a scan is running.
Stop(s) ==
    /\ stops[s] = "idle"
    /\ IF stopCh = "closed"
       THEN /\ stops' = [stops EXCEPT ![s] = "panicked"]
            /\ stopCh' = stopCh
       ELSE /\ stopCh' = "closed"
            /\ stops' = [stops EXCEPT ![s] = "returned"]
    /\ UNCHANGED <<analyzerVars, rows, nextID, mem, call, job, executed, llmLoops,
                   cancelled, collectorVars, poolVars, clientVars, schedRunning,
                   collecting, loop, triggers, started>>

\* scheduler.New and `go sched.Start(ctx)`: one loop, no scan.
InitScheduler ==
    /\ schedRunning = FALSE
    /\ collecting = {}
    /\ loop = "waiting"
    /\ triggers = [c \in TriggerCallers |-> IdleTrigger]
    /\ started = 0
    /\ stopCh = "open"
    /\ stops = [s \in StopCallers |-> "idle"]

\* Two handlers that start and delete analyses of one pair of existing
\* snapshots or name a missing snapshot; a language model that stops
\* calling tools.
Init ==
    /\ InitAnalyzer
    /\ InitCollector
    /\ InitPool
    /\ InitClient
    /\ InitScheduler
    /\ lookup = IdleLookup({}, 0)
    /\ cancelled = FALSE
    /\ llmLoops = FALSE

Next ==
    \/ \E c \in Callers, p \in PairInputs : CallStart(c, p[1], p[2])
    \/ \E c \in Callers : CallLock(c)
    \/ \E c \in Callers : CallCreate(c)
    \/ \E c \in Callers : CallReturn(c)
    \/ \E c \in Callers : CallEnd(c)
    \/ \E p \in PairInputs : DeleteAnalysis(p[1], p[2])
    \/ \E id \in IDs : JobStep(id)

Spec == Init /\ [][Next]_vars

\* Two handlers that start analyses of two different pairs.
NextPairs ==
    \/ \E c \in Callers, p \in ValidPairs : CallStart(c, p[1], p[2])
    \/ \E c \in Callers : CallLock(c)
    \/ \E c \in Callers : CallCreate(c)
    \/ \E c \in Callers : CallReturn(c)
    \/ \E c \in Callers : CallEnd(c)
    \/ \E id \in IDs : JobStep(id)

SpecPairs == Init /\ [][NextPairs]_vars

\* One handler, one pair, a language model that may call tools for ever.
InitDialogue ==
    /\ InitAnalyzer
    /\ InitCollector
    /\ InitPool
    /\ InitClient
    /\ InitScheduler
    /\ lookup = IdleLookup({}, 0)
    /\ cancelled = FALSE
    /\ llmLoops = TRUE

NextDialogue ==
    \/ CallStart("h1", 2, 1)
    \/ CallLock("h1")
    \/ CallCreate("h1")
    \/ CallReturn("h1")
    \/ CallEnd("h1")
    \/ \E id \in IDs : JobStep(id)

SpecDialogue == InitDialogue /\ [][NextDialogue]_vars

\* The goroutine of a job is scheduled for ever, and each call it makes of
\* the language model, of a tool and of the repository returns.
FairDialogue == SpecDialogue /\ \A id \in IDs : WF_vars(JobStep(id))

\* One handler, one pair, and the cancellation of the context.
NextShutdown ==
    \/ CallStart("h1", 2, 1)
    \/ CallLock("h1")
    \/ CallCreate("h1")
    \/ CallReturn("h1")
    \/ CallEnd("h1")
    \/ \E id \in IDs : JobStep(id)
    \/ Cancel

SpecShutdown == Init /\ [][NextShutdown]_vars

\* Scans one after the other, and the cancellation of their context.
NextCollect ==
    \/ CollectStep
    \/ SinkReturn
    \/ Cancel

SpecCollect == Init /\ [][NextCollect]_vars

\* Scans that start right after the earlier scan, in the same second or
\* later, and the wall clock.
InitScans ==
    /\ InitAnalyzer
    /\ InitTables
    /\ InitPool
    /\ InitClient
    /\ InitScheduler
    /\ lookup = IdleLookup({}, 0)
    /\ now = 0
    /\ cancelled = FALSE
    /\ llmLoops = FALSE

NextScans ==
    \/ CollectStep
    \/ SinkReturn
    \/ Tick

SpecScans == InitScans /\ [][NextScans]_vars

\* One run of the concurrent collector and the cancellation of its context.
NextPool ==
    \/ PoolStep
    \/ \E w \in Names : WorkerStep(w)
    \/ Cancel

SpecPool == Init /\ [][NextPool]_vars

\* One request of the metrics client and the cancellation of its context.
NextClient ==
    \/ ClientStep
    \/ Cancel

SpecClient == Init /\ [][NextClient]_vars

\* The scheduler: the loop of Start, two handlers that trigger scans and two
\* callers of Stop.
NextScheduler ==
    \/ SchedTick
    \/ \E c \in TriggerCallers : TriggerScan(c)
    \/ \E c \in TriggerCallers : TriggerEnd(c)
    \/ \E o \in {"loop"} \cup TriggerCallers : ScanDone(o)
    \/ LoopStop
    \/ \E s \in StopCallers : Stop(s)

SpecScheduler == Init /\ [][NextScheduler]_vars

\* GetLabelsForMetric over every series set and every sampleLimit.
InitLabels ==
    /\ InitAnalyzer
    /\ InitCollector
    /\ InitPool
    /\ InitClient
    /\ InitScheduler
    /\ cancelled = FALSE
    /\ llmLoops = FALSE
    /\ \E series \in SeriesSets, limit \in SampleLimits :
          lookup = IdleLookup(series, limit)

NextLabels == GetLabelsForMetric

SpecLabels == InitLabels /\ [][NextLabels]_vars

(***************************************************************************)
(* Properties                                                              *)
(***************************************************************************)
Flying == {id \in IDs : InFlight(id)}
\* Calls that flipped `running` and have neither launched their job nor
\* failed to create the row yet.
Guarding == {c \in Callers : call[c].pc = "create"}

Terminal(row) == row.status \in {StatusCompleted, StatusFailed}

CompletedIDs(cur, prev) ==
    {id \in PairIDs(rows, cur, prev) : rows[id].status = StatusCompleted}

\* The step is the return of c's call StartAnalysis(cur, prev).
Returns(c) == call[c].pc # "returned" /\ call'[c].pc = "returned"
IsCallOf(c, cur, prev) ==
    \/ CallStart(c, cur, prev)
    \/ call[c].pc \in {"lock", "create", "setStatus"}
         /\ call[c].cur = cur /\ call[c].prev = prev

AllPairs == PairInputs \cup ValidPairs

IsPrefix(a, b) == Len(a) <= Len(b) /\ SubSeq(b, 1, Len(a)) = a

\* What a recorded tool call says about the invocation.
Recorded(calls) ==
    [k \in 1 .. Len(calls) |->
        [name |-> calls[k].name, args |-> calls[k].args,
         failed |-> calls[k].result.error # ""]]

\* C1: at most one runAnalysis job is in flight at any time; `running` is
\* true exactly while one call holds the guard before launching or one job
\* is in flight; a job is launched only by the call that flipped `running`,
\* and `running` is cleared only by the end of that job or by the failed
\* row creation of the call that flipped it.
C1_SingleInflight ==
    /\ [](/\ Cardinality(Flying) <= 1
          /\ Cardinality(Flying) + Cardinality(Guarding) <= 1
          /\ running <=> (Flying \cup Guarding # {}))
    /\ [][/\ \A id \in IDs :
               (~InFlight(id) /\ InFlight(id)') =>
                   \E c \in Callers : /\ call[c].pc = "create"
                                      /\ call'[c].pc = "setStatus"
                                      /\ call'[c].id = id
          /\ (running /\ ~running') =>
               \/ \E id \in IDs : job[id].pc = "exit" /\ ~InFlight(id)'
               \/ \E c \in Callers : /\ call[c].pc = "create"
                                     /\ call'[c].ret.kind = "CreateFailed"]_vars

\* C1 witness: a call was rejected while another call's job is in flight.
C1_Witness ==
    /\ Flying # {}
    /\ \E c \in Callers : call[c].ret.kind = "AlreadyRunning"

\* C2 (as claimed): once a Completed row of a pair is persisted, every call
\* StartAnalysis for that pair that returns afterwards without having
\* created a row returns that Completed row, creates no row and launches
\* no job (lookup failures of the repositories aside).
C2_ReturnsCompletedRow ==
    [][\A c \in Callers : \A p \in AllPairs :
          (/\ Returns(c)
           /\ IsCallOf(c, p[1], p[2])
           /\ call[c].pc # "setStatus"
           /\ CompletedIDs(p[1], p[2]) # {}
           /\ call'[c].ret.kind \notin {"SnapshotLookupFailed", "CheckFailed"})
          => (/\ call'[c].ret.kind = "existing"
              /\ call'[c].ret.id \in CompletedIDs(p[1], p[2])
              /\ rows' = rows
              /\ job' = job)]_vars

\* C3 (as claimed): every persisted row that is Completed or Failed has a
\* completed_at, every row that is Pending or Running has none.
C3_CompletedAtMatchesStatus ==
    \A id \in IDs :
        rows[id] # NoRow =>
            (Terminal(rows[id]) <=> rows[id].completedAt # NullTime)

\* C4: a persisted row that is Completed or Failed is changed by no step
\* but DeleteAnalysis, and the job whose row is terminal has no repository
\* update left to do.
C4_TerminalRowsStay ==
    /\ [][\A id \in IDs :
            (rows[id] # NoRow /\ Terminal(rows[id])) =>
                \/ rows'[id] = rows[id]
                \/ \E p \in AllPairs : DeleteAnalysis(p[1], p[2])]_vars
    /\ [](\A id \in IDs :
            (rows[id] # NoRow /\ Terminal(rows[id]) /\ InFlight(id)) =>
                job[id].pc \in {"progressCompleted", "exit"})

\* C4 witness: a call for the pair of a Failed row has run into the guard or
\* the insert and has returned, the row is still there.
C4_Witness ==
    \E id \in IDs : \E c \in Callers :
        /\ rows[id] # NoRow
        /\ rows[id].status = StatusFailed
        /\ ~InFlight(id)
        /\ call[c].ret.kind = "CreateFailed"

\* C5: a call StartAnalysis(a, b) made while a Completed row of (a, b) is
\* persisted, whose lookups succeed, returns that row with status
\* Completed, creates no row, launches no job and leaves the global status
\* as it is.
C5_SecondCallReturnsSameRow ==
    [][\A c \in Callers : \A p \in AllPairs :
          (/\ CallStart(c, p[1], p[2])
           /\ CompletedIDs(p[1], p[2]) # {}
           /\ call'[c].ret.kind \notin {"SnapshotLookupFailed", "CheckFailed"})
          => (/\ call'[c].pc = "returned"
              /\ call'[c].ret.kind = "existing"
              /\ call'[c].ret.id \in CompletedIDs(p[1], p[2])
              /\ call'[c].ret.status = StatusCompleted
              /\ UNCHANGED <<rows, nextID, job, mem, analyzerVars>>)]_vars

\* C5 witness: one handler got the started analysis, the other one later
\* got the same row back as the existing Completed one.
C5_Witness ==
    \E c, d \in Callers :
        /\ call[c].ret.kind = "started"
        /\ call[d].ret.kind = "existing"
        /\ call[d].ret.id = call[c].ret.id
        /\ rows[call[d].ret.id].status = StatusCompleted

\* A job for the pair of c's call is in flight.
JobOfPairInFlight(c) ==
    \E id \in IDs : /\ InFlight(id)
                    /\ mem[id].cur = call[c].cur
                    /\ mem[id].prev = call[c].prev

\* C6: a call StartAnalysis(a, b) that reaches the guard while a job for
\* (a, b) is in flight returns the already-running error, creates no row,
\* launches no job and leaves running, the two snapshot ids and progress
\* as they are.
C6_RejectedWhileInFlight ==
    [][\A c \in Callers :
          (/\ call[c].pc = "lock"
           /\ JobOfPairInFlight(c)
           /\ call'[c] # call[c])
          => (/\ call'[c].pc = "returned"
              /\ call'[c].ret.kind = "AlreadyRunning"
              /\ UNCHANGED <<rows, nextID, job, mem, analyzerVars>>)]_vars

\* C6 witness: a call for the pair of the job in flight was rejected while
\* the pair has no Completed row.
C6_Witness ==
    \E c \in Callers : \E id \in IDs :
        /\ call[c].ret.kind = "AlreadyRunning"
        /\ InFlight(id)
        /\ rows[id] # NoRow
        /\ rows[id].status = StatusRunning
        /\ running

\* C7: a call that names a missing current or previous snapshot, or whose
\* snapshot lookup fails, returns an error without calling the analysis
\* repository, creates no row, launches no job and leaves the guard and the
\* global status as they are.
C7_MissingSnapshotFailsFast ==
    [][\A c \in Callers : \A p \in AllPairs :
          (/\ CallStart(c, p[1], p[2])
           /\ \/ p[1] \notin Snapshots
              \/ p[2] \notin Snapshots
              \/ call'[c].ret.kind = "SnapshotLookupFailed")
          => (/\ call'[c].pc = "returned"
              /\ call'[c].ret.kind \in {"SnapshotNotFound", "SnapshotLookupFailed"}
              /\ ~call'[c].ret.touched
              /\ UNCHANGED <<rows, nextID, job, mem, analyzerVars>>)]_vars

\* C7 witness: a call failed with not-found while a job is in flight and a
\* row exists.
C7_Witness ==
    /\ \E c \in Callers : call[c].ret.kind = "SnapshotNotFound"
    /\ Flying # {}
    /\ \E id \in IDs : rows[id] # NoRow

\* C8: the tool calls recorded for an analysis are the executed tool
\* invocations in invocation order, one per loop iteration, at most
\* maxAgenticIterations of them; what is persisted is a prefix of them.
C8_ToolCallsInOrder ==
    \A id \in IDs :
        /\ rows[id] # NoRow => Len(rows[id].toolCalls) <= maxAgenticIterations
        /\ InFlight(id) =>
             /\ Recorded(mem[id].toolCalls) = executed[id]
             /\ Len(mem[id].toolCalls) <= maxAgenticIterations
             /\ job[id].pc = "loop" => Len(mem[id].toolCalls) = job[id].i
             /\ rows[id] # NoRow =>
                    IsPrefix(Recorded(rows[id].toolCalls), executed[id])

\* C8 witness: a job has recorded and persisted maxAgenticIterations calls.
C8_Witness ==
    \E id \in IDs :
        /\ InFlight(id)
        /\ Len(executed[id]) = maxAgenticIterations
        /\ rows[id] # NoRow
        /\ Len(rows[id].toolCalls) = maxAgenticIterations
        /\ rows[id].status = StatusCompleted

\* C9 (as claimed): a job that ended because building the prompt, creating
\* the chat session or sending a message failed, and whose last update
\* succeeded, leaves its row Failed with an error text and a completed_at.
C9_FatalFailurePersistsFailed ==
    \A id \in IDs :
        (/\ job[id].pc = "exit"
         /\ job[id].err = ExternalError
         /\ job[id].lastWriteOK
         /\ rows[id] # NoRow)
        => (/\ rows[id].status = StatusFailed
            /\ rows[id].error # NoErr
            /\ rows[id].completedAt # NullTime)

\* C10 (as claimed): when a repository update of the job fails, the
\* analysis becomes Failed with an error text and a completed_at.
C10_FailedWriteFailsAnalysis ==
    [][\A id \in IDs :
          (/\ job[id].pc \in {"updRunning", "updTool", "updFinal"}
           /\ job'[id].pc # job[id].pc
           /\ ~job'[id].lastWriteOK)
          => (/\ mem'[id].status = StatusFailed
              /\ mem'[id].error # NoErr
              /\ mem'[id].completedAt # NullTime)]_vars

\* C11 (as claimed): whenever the job holds a model response without
\* candidate content, be it the answer to the initial prompt or to a tool
\* result, its next step ends the analysis Failed with the empty-response
\* error instead of completing it.
C11_EmptyResponseFails ==
    [][\A id \in IDs :
          (/\ job[id].pc = "loop"
           /\ ~job[id].resp.hasContent
           /\ job'[id] # job[id])
          => (/\ job'[id].pc = "failUpdate"
              /\ mem'[id].status = StatusFailed
              /\ mem'[id].error = EmptyResponseError)]_vars

\* The texts of the parts that carry text and are no thoughts, in order.
NonThoughtTexts(resp) ==
    LET kept == SelectSeq(resp.parts, LAMBDA p : p.text # <<>> /\ ~p.thought)
        Glue[k \in 0 .. Len(kept)] ==
            IF k = 0 THEN <<>> ELSE Glue[k - 1] \o kept[k].text
    IN Glue[Len(kept)]

\* C13: the step that marks an analysis Completed sets its result to the
\* concatenation of the non-thought text parts of the last model response,
\* or to "No analysis generated." when that is empty; every row persisted
\* as Completed has a non-empty result.
C13_CompletedHasResult ==
    /\ [][\A id \in IDs :
            (job[id].pc = "final" /\ job'[id].pc # "final") =>
                /\ mem'[id].status = StatusCompleted
                /\ mem'[id].result =
                       (IF NonThoughtTexts(job[id].resp) = <<>>
                        THEN <<"No analysis generated.">>
                        ELSE NonThoughtTexts(job[id].resp))]_vars
    /\ [](\A id \in IDs :
            (rows[id] # NoRow /\ rows[id].status = StatusCompleted) =>
                rows[id].result # <<>>)

\* C13 witness: a model turn of thoughts only and no function call ended
\* the loop at once; the row is persisted Completed with the fallback text
\* and no tool calls.
C13_Witness ==
    \E id \in IDs :
        /\ rows[id] # NoRow
        /\ rows[id].status = StatusCompleted
        /\ rows[id].result = <<"No analysis generated.">>
        /\ rows[id].toolCalls = <<>>

\* C12: a tool execution error is not fatal.  The step that executes a
\* failing tool records the call with the result {error: message} and
\* leaves the status alone; the job then goes on to persist the call and to
\* send the function response {error: message}, and continues with the
\* model's next response unless sending itself fails.
C12_ToolErrorNotFatal ==
    [][\A id \in IDs :
          LET j == job[id]
              failing == Execute(j.fc).kind = "error"
              message == Execute(j.fc).value
          IN (failing /\ job'[id].pc # j.pc) =>
                /\ j.pc = "exec" =>
                     /\ job'[id].pc = "updTool"
                     /\ mem'[id].status = mem[id].status
                     /\ Len(mem'[id].toolCalls) = Len(mem[id].toolCalls) + 1
                     /\ LET tc == mem'[id].toolCalls[Len(mem'[id].toolCalls)]
                        IN /\ tc.name = j.fc.name
                           /\ tc.args = j.fc.args
                           /\ tc.result.error = message
                           /\ tc.result.value = ""
                /\ j.pc = "updTool" =>
                     /\ job'[id].pc = "sendResult"
                     /\ mem'[id] = mem[id]
                /\ j.pc = "sendResult" =>
                     \/ /\ job'[id].pc = "loop"
                        /\ job'[id].i = j.i + 1
                        /\ job'[id].sent = [name |-> j.fc.name,
                                            response |-> [error |-> message,
                                                          value |-> ""]]
                        /\ mem'[id] = mem[id]
                     \/ /\ job'[id].pc = "failUpdate"
                        /\ job'[id].err = ExternalError]_vars

\* C12 witness: after a failed tool call the analysis was completed; the
\* call is persisted with its error.
C12_Witness ==
    \E id \in IDs :
        /\ rows[id] # NoRow
        /\ rows[id].status = StatusCompleted
        /\ Len(rows[id].toolCalls) = 2
        /\ rows[id].toolCalls[1].result.error # ""
        /\ rows[id].toolCalls[2].result.error = ""

\* The step is a call of the language model by job id that went through.
IsModelCall(id) ==
    \/ job[id].pc = "createChat" /\ job'[id].pc = "sendInitial"
    \/ job[id].pc \in {"sendInitial", "sendResult"} /\ job'[id].pc = "loop"

\* C14 (as claimed): once the context is cancelled, a job in flight makes
\* no further call of the language model that goes through and writes
\* nothing more to the repository.
C14_CancelledJobStops ==
    [][\A id \in IDs :
          (cancelled /\ InFlight(id)) =>
              /\ ~IsModelCall(id)
              /\ job'[id] # job[id] => rows' = rows]_vars

(***************************************************************************)
(* Properties of the collector                                             *)
(***************************************************************************)
\* The service rows of a snapshot, and the sum of their total_series.
ServiceRowsOf(id) == {k \in 1 .. Len(serviceTable) : serviceTable[k].snapshotID = id}

RECURSIVE SumSeries(_)
SumSeries(ks) ==
    IF ks = {} THEN 0
    ELSE LET k == CHOOSE x \in ks : TRUE
         IN serviceTable[k].totalSeries + SumSeries(ks \ {k})

ReturnedOK == scan.pc = "returned" /\ scan.ret.kind = "ok"
\* Collect is between the insert of the snapshot row and its return.
Scanning == scan.pc \notin {"idle", "returned"} /\ scan.snapshotID # 0

\* C15: when Collect has returned success, the snapshot row's total_series
\* is the sum of total_series over the service rows persisted for that
\* snapshot.
C15_TotalSeriesIsSum ==
    ReturnedOK =>
        /\ snapshotTable[scan.snapshotID].totalSeries =
               SumSeries(ServiceRowsOf(scan.snapshotID))
        /\ scan.ret.totalSeries = snapshotTable[scan.snapshotID].totalSeries

\* C15 witness: a successful scan of two discovered services of which one
\* failed and one was persisted.
C15_Witness ==
    /\ ReturnedOK
    /\ scan.ret.totalServices = 2
    /\ Cardinality(ServiceRowsOf(scan.snapshotID)) = 1
    /\ snapshotTable[scan.snapshotID].totalSeries > 0

\* C16 (as claimed): when Collect has returned success, the snapshot row's
\* total_services is the number of service rows persisted for that
\* snapshot.
C16_TotalServicesIsCount ==
    ReturnedOK =>
        snapshotTable[scan.snapshotID].totalServices =
            Cardinality(ServiceRowsOf(scan.snapshotID))

\* Every child row references a parent row that exists, and the rows below
\* a snapshot were written by the scan of that snapshot.
TreeConsistent ==
    /\ \A k \in 1 .. Len(serviceTable) :
          /\ serviceTable[k].snapshotID \in ScanIDs
          /\ snapshotTable[serviceTable[k].snapshotID] # NoSnapshot
    /\ \A k \in 1 .. Len(metricTable) :
          metricTable[k].serviceSnapshotID \in 1 .. Len(serviceTable)
    /\ \A k \in 1 .. Len(labelTable) :
          labelTable[k].metricSnapshotID \in 1 .. Len(metricTable)

\* C17: a scan whose context is cancelled between the insert of the
\* snapshot row and the end of the scan returns an error and leaves the
\* snapshot row with zero totals; at all times every child row references
\* an existing parent row.
C17_CancelledScanKeepsZeroTotals ==
    /\ [][(cancelled /\ Scanning /\ scan'.pc = "returned") =>
            /\ scan'.ret.kind = "error"
            /\ snapshotTable' = snapshotTable
            /\ snapshotTable[scan.snapshotID].totalServices = 0
            /\ snapshotTable[scan.snapshotID].totalSeries = 0]_vars
    /\ []TreeConsistent

\* C17 witness: a scan cancelled inside a service has returned an error;
\* the snapshot has zero totals, a service row and a metric row.
C17_Witness ==
    /\ cancelled
    /\ scan.pc = "returned"
    /\ scan.snapshotID # 0
    /\ scan.ret.kind = "error"
    /\ snapshotTable[scan.snapshotID].totalServices = 0
    /\ snapshotTable[scan.snapshotID].totalSeries = 0
    /\ \E k \in ServiceRowsOf(scan.snapshotID) :
          \E n \in 1 .. Len(metricTable) : metricTable[n].serviceSnapshotID = k

\* C18: a service whose metrics query or whose insert fails does not end
\* the scan: Collect goes on to the next service with its totals as they
\* were; while the context is not cancelled it attempts every service in
\* turn and after the last one updates the snapshot row, and an update
\* that goes through makes Collect return success.
C18_ServiceFailureNotFatal ==
    /\ [][(/\ scan.pc \in {"getMetrics", "createService"}
           /\ scan' # scan
           /\ serviceTable' = serviceTable
           /\ scan'.pc # "createService") =>
              /\ scan'.pc = "loop"
              /\ scan'.i = scan.i + 1
              /\ scan'.serviceInfos = scan.serviceInfos
              /\ scan'.totalSeries = scan.totalSeries]_vars
    /\ [][(scan.pc = "loop" /\ ~cancelled /\ scan' # scan) =>
              IF scan.i < Len(scan.serviceInfos)
              THEN /\ scan'.pc = "sink"
                   /\ scan'.resume = "getMetrics"
                   /\ scan'.i = scan.i
                   /\ trace'[Len(trace')].detail = scan.serviceInfos[scan.i + 1].name
              ELSE scan'.pc = "update"]_vars
    /\ [][(scan.pc = "update" /\ snapshotTable' # snapshotTable) =>
              /\ scan'.pc = "returned"
              /\ scan'.ret.kind = "ok"]_vars

\* C18 witness: the first of two services failed, the second was collected
\* and the scan returned success.
C18_Witness ==
    /\ ReturnedOK
    /\ scan.ret.totalServices = 2
    /\ \E p \in 1 .. Len(trace) - 2 :
          /\ trace[p].kind = "progress" /\ trace[p].current = 1
          /\ trace[p + 1].kind = "progress" /\ trace[p + 1].current = 2
          /\ trace[p + 2].kind = "insert" /\ trace[p + 2].table = "service"

\* C19: from its insert until the final update the snapshot row holds zero
\* totals; the only write that changes it is the update made when every
\* service has been processed, which is the last write of the scan.
C19_TwoPhaseWrite ==
    /\ [](Scanning =>
            /\ snapshotTable[scan.snapshotID].totalServices = 0
            /\ snapshotTable[scan.snapshotID].totalSeries = 0
            /\ \A k \in 1 .. Len(trace) : trace[k].kind # "update")
    /\ [](\A k \in 1 .. Len(trace) : trace[k].kind = "update" => k = Len(trace))
    /\ [][\A id \in ScanIDs :
            (snapshotTable[id] # NoSnapshot /\ snapshotTable'[id] # snapshotTable[id]) =>
                /\ scan.pc = "update"
                /\ id = scan.snapshotID
                /\ scan.i = Len(scan.serviceInfos)
                /\ UNCHANGED <<serviceTable, metricTable, labelTable>>]_vars

\* C19 witness: the totals were written after a service, a metric and a
\* label of the scan.
C19_Witness ==
    /\ ReturnedOK
    /\ snapshotTable[scan.snapshotID].totalSeries > 0
    /\ trace[Len(trace)].kind = "update"
    /\ \E k \in 1 .. Len(trace) : trace[k].kind = "insert" /\ trace[k].table = "label"

\* The progress events of the trace, and the position of the last progress
\* event before position p.
Events == SelectSeq(trace, LAMBDA e : e.kind = "progress")
LastEventBefore(p) ==
    CHOOSE q \in 1 .. p :
        /\ trace[q].kind = "progress"
        /\ \A r \in q + 1 .. p : trace[r].kind # "progress"

\* The service a row written at position p of the trace belongs to.
ServiceNameOf(e) ==
    IF e.table = "service" THEN serviceTable[e.id].serviceName
    ELSE IF e.table = "metric" THEN serviceTable[e.parent].serviceName
    ELSE serviceTable[metricTable[e.parent].serviceSnapshotID].serviceName

\* C20: the sink first receives ("discovering", 0, 0); the k-th event
\* after it is ("scanning", k, N, name of the k-th discovered service); and
\* every service, metric or label row is written after the event of its
\* service and before the event of the next one.
C20_ServicesInDiscoveryOrder ==
    /\ trace # <<>> =>
          /\ trace[1].kind = "progress"
          /\ trace[1].phase = "discovering"
          /\ trace[1].current = 0 /\ trace[1].total = 0
    /\ \A k \in 2 .. Len(Events) :
          /\ Events[k].phase = "scanning"
          /\ Events[k].current = k - 1
          /\ Scanning =>
                /\ Events[k].total = Len(scan.serviceInfos)
                /\ k - 1 <= Len(scan.serviceInfos)
                /\ Events[k].detail = scan.serviceInfos[k - 1].name
    /\ \A p \in 1 .. Len(trace) :
          (trace[p].kind = "insert" /\ trace[p].table # "snapshot") =>
              /\ trace[LastEventBefore(p)].phase = "scanning"
              /\ trace[LastEventBefore(p)].detail = ServiceNameOf(trace[p])

\* C20 witness: two services that were discovered in ascending order of
\* their series counts were scanned in that order, each with a row.
C20_Witness ==
    /\ scan.pc = "update"
    /\ Len(scan.serviceInfos) = 2
    /\ scan.serviceInfos[1].seriesCount < scan.serviceInfos[2].seriesCount
    /\ Len(Events) = 3
    /\ Cardinality(ServiceRowsOf(scan.snapshotID)) = 2

\* C21 (as claimed): invoking the progress sink never blocks the scan:
\* while a call of the sink has not returned, Collect can still take its
\* next step.
C21_SinkNeverBlocks == scan.pc = "sink" => ENABLED CollectStep

\* C30: no two persisted snapshots share their collected_at, which is
\* truncated to the second, whatever the scans and their start times.
C30_CollectedAtUnique ==
    \A a, b \in ScanIDs :
        (a # b /\ snapshotTable[a] # NoSnapshot /\ snapshotTable[b] # NoSnapshot) =>
            snapshotTable[a].collectedAt # snapshotTable[b].collectedAt

\* C30 witness: a scan that started in the second of the earlier snapshot
\* has returned an error and left no snapshot row.
C30_Witness ==
    /\ scan.pc = "returned"
    /\ scan.ret.kind = "error"
    /\ Len(trace) = 1
    /\ now > 0
    /\ Truncate(now) = snapshotTable[1].collectedAt
    /\ snapshotTable[2] = NoSnapshot

(***************************************************************************)
(* Properties of the concurrent collector                                  *)
(***************************************************************************)
\* The workers between the acquisition of their slot and its release, the
\* workers that were launched, and those whose collectMetric succeeded.
Holding == {w \in Names : workers[w].pc \in {"collect", "lock", "write", "release"}}
Launched == {w \in Names : workers[w].pc # "none"}
Succeeded == {w \in Launched : workers[w].pc \in {"release", "done", "exited"}
                                /\ ~workers[w].failed}
RECURSIVE SumCardinality(_)
SumCardinality(ws) ==
    IF ws = {} THEN 0
    ELSE LET w == CHOOSE x \in ws : TRUE
         IN CardinalityOf(w) + SumCardinality(ws \ {w})

\* C22: at any moment at most Concurrency workers are between the
\* acquisition of their slot and its release.
C22_AtMostWWorkers == Cardinality(Holding) <= Concurrency

\* C22 witness: Concurrency workers hold a slot each and the dispatch loop
\* waits for a slot for one more name.
C22_Witness ==
    /\ Cardinality(Holding) = Concurrency
    /\ collect.pc = "acquire"
    /\ collect.i < Len(collect.names)

C24_WaitingStopsOnCancel ==
    (cancelled /\ collect.pc = "acquire" /\ SemFull) => ENABLED PoolStep

\* C25: at most one worker is inside the section that updates the shared
\* aggregates, and a successful Collect returns TotalMetrics = the number
\* of metrics collected, TotalCardinality = the sum of their cardinalities,
\* and TotalMetrics + len(Errors) = the number of workers launched.
C25_NoLostUpdate ==
    /\ Cardinality({w \in Names : workers[w].pc = "write"}) <= 1
    /\ (collect.pc = "returned" /\ collect.ret = "ok") =>
          /\ collectResult.TotalMetrics = Cardinality(Succeeded)
          /\ collectResult.TotalCardinality = SumCardinality(Succeeded)
          /\ collectResult.TotalMetrics + collectResult.Errors = Cardinality(Launched)

\* C25 witness: a successful Collect that launched a worker for every
\* name, more than Concurrency of them, some failing and some succeeding.
C25_Witness ==
    /\ collect.pc = "returned"
    /\ collect.ret = "ok"
    /\ Cardinality(Launched) = MaxNames
    /\ collectResult.Errors >= 1
    /\ collectResult.TotalMetrics >= 2

(***************************************************************************)
(* Properties of the metrics client                                        *)
(***************************************************************************)
\* The error wraps, directly or through other errors, the error e.
RECURSIVE Wraps(_, _)
Wraps(err, e) ==
    \/ err = e
    \/ "wraps" \in DOMAIN err /\ Wraps(err.wraps, e)

\* The message of the error holds the text: in the text of the envelope's
\* error, or in the body quoted after an unexpected status code.
RECURSIVE Carries(_, _)
Carries(err, text) ==
    \/ err.kind = "prometheus returned error" /\ err.text = text
    \/ err.kind = "unexpected status code" /\ err.body = text
    \/ "wraps" \in DOMAIN err /\ Carries(err.wraps, text)

\* The request has returned without its context having been cancelled.
ReturnedUncancelled == client.pc = "returned" /\ ~cancelled

C27_CancellationShortCircuits ==
    /\ []((cancelled /\ client.pc \notin {"idle", "returned"}) => ENABLED ClientStep)
    /\ [][(cancelled /\ client.pc = "idle" /\ client'.pc # "idle") =>
            /\ client'.pc = "returned"
            /\ Wraps(client'.ret, ContextCanceled)]_vars
    /\ [][cancelled =>
            /\ sent' = sent
            /\ waits' = waits
            /\ (client.pc # "returned" /\ client'.pc = "returned") =>
                   Wraps(client'.ret, ContextCanceled)]_vars

\* C28 (as claimed): a request the backend has answered with an envelope
\* whose status is not "success" returns, whatever the HTTP status codes,
\* after 3 attempts with waits of 1 s and 2 s between them.
C28_EnvelopeErrorAfterThreeAttempts ==
    (/\ ReturnedUncancelled
     /\ received[Len(received)].transport
     /\ received[Len(received)].status # "success") =>
        /\ sent = 3
        /\ waits = <<1, 2>>
        /\ Carries(client.ret, received[Len(received)].error)

(***************************************************************************)
(* Properties of GetLabelsForMetric                                        *)
(***************************************************************************)
\* C29 (as claimed): every LabelInfo returned has at most sampleLimit
\* sample values, strictly ascending, and the number of all distinct values
\* of the label as its UniqueValues.
C29_SampleValuesBounded ==
    \A k \in DOMAIN lookup.labels :
        LET label == lookup.labels[k]
        IN /\ Len(label.SampleValues) <= lookup.sampleLimit
           /\ \A i, j \in DOMAIN label.SampleValues :
                 i < j => label.SampleValues[i] < label.SampleValues[j]
           /\ label.UniqueValues =
                 Cardinality({s[label.Name] : s \in lookup.series})

\* C40 (as claimed): what a call of GetLabelsForMetric has returned for a
\* label carries the sample values every other call over the same series
\* and with the same sampleLimit returns for that label.
C40_SamplesDeterministic ==
    (lookup.pc = "returned" /\ ~lookup.err) =>
        \A other \in LabelInfosOf(lookup.series, "service", lookup.sampleLimit) :
            \A i \in DOMAIN lookup.labels, j \in DOMAIN other :
                lookup.labels[i].Name = other[j].Name =>
                    lookup.labels[i].SampleValues = other[j].SampleValues

\* The rows persisted under snapshot id.
ChildRowsOf(id) ==
    {k \in DOMAIN serviceTable : serviceTable[k].snapshotID = id}

\* C38: when DiscoverServices has failed, Collect returns that error and
\* writes nothing in doing so; the snapshot row it had inserted stays, with
\* total_services = 0 and total_series = 0, without any row under it.
C38_DiscoveryFailureKeepsZeroRow ==
    /\ [][(scan.pc = "discovered" /\ scan.err /\ scan' # scan) =>
            /\ scan'.pc = "returned"
            /\ scan'.ret = [kind |-> "error", of |-> "DiscoverServices"]
            /\ UNCHANGED <<snapshotTable, serviceTable, metricTable, labelTable, trace>>]_vars
    /\ []((scan.pc = "returned" /\ scan.ret = [kind |-> "error", of |-> "DiscoverServices"]) =>
            /\ snapshotTable[scan.snapshotID].totalServices = 0
            /\ snapshotTable[scan.snapshotID].totalSeries = 0
            /\ ChildRowsOf(scan.snapshotID) = {}
            /\ \A k \in 1 .. Len(trace) : trace[k].kind # "update")

\* C38 witness: Collect has returned the error of DiscoverServices, under
\* a context that is not cancelled, after it had inserted its snapshot row.
C38_Witness ==
    /\ scan.pc = "returned"
    /\ scan.ret = [kind |-> "error", of |-> "DiscoverServices"]
    /\ ~cancelled
    /\ snapshotTable[scan.snapshotID] # NoSnapshot
    /\ snapshotTable[scan.snapshotID].totalServices = 0

\* C39 (as claimed): once Collect has returned, every service row counts
\* in metric_count the metric rows persisted under it, and every metric
\* row counts in label_count the label rows persisted under it.
C39_ChildCountsMatch ==
    scan.pc = "returned" =>
        /\ \A k \in DOMAIN serviceTable :
              serviceTable[k].metricCount =
                 Cardinality({q \in DOMAIN metricTable :
                                 metricTable[q].serviceSnapshotID = k})
        /\ \A q \in DOMAIN metricTable :
              metricTable[q].labelCount =
                 Cardinality({r \in DOMAIN labelTable :
                                 labelTable[r].metricSnapshotID = q})

\* C33: the agentic loop always ends.  A job executes at most
\* maxAgenticIterations tools and sends at most as many function responses;
\* when the model has asked for a tool in every response, the job leaves
\* the loop after the twentieth function response with twenty tools
\* executed, does not execute the tool asked for by the twenty-first
\* response, and marks the analysis Completed like after an orderly finish.
C33_LoopEndsAtCap ==
    /\ [](\A id \in IDs :
            InFlight(id) =>
                /\ Len(executed[id]) <= maxAgenticIterations
                /\ job[id].i <= maxAgenticIterations)
    /\ [][\A id \in IDs :
            (/\ job[id].pc = "loop"
             /\ job[id].i = maxAgenticIterations
             /\ job'[id] # job[id]) =>
                /\ Len(executed[id]) = maxAgenticIterations
                /\ executed'[id] = executed[id]
                /\ job'[id].pc = "final"
                /\ job'[id].resp = job[id].resp]_vars
    /\ [][\A id \in IDs :
            (/\ job[id].pc = "final"
             /\ job[id].i = maxAgenticIterations
             /\ FirstCall(job[id].resp.parts) # NoCall
             /\ job'[id] # job[id]) =>
                /\ executed'[id] = executed[id]
                /\ job'[id].pc = "updFinal"
                /\ job'[id].i = maxAgenticIterations
                /\ mem'[id].status = StatusCompleted
                /\ Len(mem'[id].toolCalls) = maxAgenticIterations]_vars

\* C33 witness: the job has left the loop after twenty function responses
\* and twenty executed tools while the twenty-first response asks for one
\* more tool.
C33_Witness ==
    \E id \in IDs :
        /\ job[id].pc = "final"
        /\ job[id].i = maxAgenticIterations
        /\ FirstCall(job[id].resp.parts) # NoCall
        /\ Len(executed[id]) = maxAgenticIterations

\* C35 (as claimed): no update of the shared analysis record is lost.  The
\* assignment of the status Running by StartAnalysis after the launch of
\* the job never replaces a terminal status the job has already set.
C35_TerminalStatusNotOverwritten ==
    [][\A c \in Callers :
          LET id == call[c].id
          IN (/\ call[c].pc = "setStatus"
              /\ call'[c].pc # "setStatus"
              /\ mem[id] # NoObj
              /\ mem[id].status \in {StatusCompleted, StatusFailed}) =>
                 \/ mem'[id] = NoObj
                 \/ mem'[id].status = mem[id].status]_vars

\* C37: a StartAnalysis whose insert of the analysis row fails returns the
\* error "failed to create analysis record" and no analysis, creates no row, launches no job and releases the single-inflight
\* guard; a call that reaches the guard while it is released, for whatever
\* pair, is not rejected as already running.
C37_FailedCreateReleasesGuard ==
    /\ [][\A c \in Callers :
            (call[c].pc = "create" /\ call'[c].pc = "returned") =>
                /\ call'[c].ret.kind = "CreateFailed"
                /\ call'[c].ret.id = 0
                /\ ~running'
                /\ UNCHANGED <<rows, nextID, job, mem>>]_vars
    /\ [][\A c \in Callers :
            (call[c].pc = "lock" /\ ~running /\ call'[c] # call[c]) =>
                /\ call'[c].pc = "create"
                /\ running']_vars

\* C37 witness: a call has returned the error of the failed insert and
\* another call has passed the guard after it.
C37_Witness ==
    \E c, d \in Callers :
        /\ c # d
        /\ call[c].pc = "returned"
        /\ call[c].ret.kind = "CreateFailed"
        /\ call[d].pc = "create"
        /\ running

\* C36 (as claimed): what GetGlobalStatus reports is consistent in every
\* state.  While running is false the two snapshot ids are 0 and the
\* progress is empty; while running is true the two ids are those of the
\* one analysis that a call is creating or that a job has in flight.
C36_GlobalStatusConsistent ==
    /\ ~running =>
          /\ currentSnapshotID = 0
          /\ previousSnapshotID = 0
          /\ progress = <<>>
    /\ running =>
          \/ \E c \in Callers :
                /\ call[c].pc = "create"
                /\ currentSnapshotID = call[c].cur
                /\ previousSnapshotID = call[c].prev
          \/ \E id \in IDs :
                /\ InFlight(id)
                /\ mem[id] # NoObj
                /\ currentSnapshotID = mem[id].cur
                /\ previousSnapshotID = mem[id].prev

\* C34: a job that has been launched ends, provided each of its calls
\* returns, and whatever its exit path (Completed, Failed, a failed final
\* update) its last step resets the global status: running is false, the
\* two snapshot ids are 0, the progress is empty, and the guard of
\* StartAnalysis no longer rejects.
C34_JobEndsAndResets ==
    /\ \A id \in IDs :
          InFlight(id) ~>
              (/\ ~InFlight(id)
               /\ ~running
               /\ currentSnapshotID = 0
               /\ previousSnapshotID = 0
               /\ progress = <<>>)
    /\ [][\A id \in IDs :
            (InFlight(id) /\ job'[id].pc = "idle") =>
                /\ job[id].pc = "exit"
                /\ ~running'
                /\ currentSnapshotID' = 0
                /\ previousSnapshotID' = 0
                /\ progress' = <<>>
                /\ ~GuardRejects(running')]_vars

\* C34 witness: a job has ended with its row persisted, the global status
\* is reset, and a later call has passed the guard.
C34_Witness ==
    \E id \in IDs : \E c \in Callers :
        /\ rows[id] # NoRow
        /\ rows[id].status \in {StatusCompleted, StatusFailed}
        /\ ~InFlight(id)
        /\ currentSnapshotID = call[c].cur
        /\ call[c].pc = "create"
        /\ progress = <<"Initializing">>

\* C31: at most one scan is running at any time, however the ticks of the
\* timer and the calls of TriggerScan interleave.  A TriggerScan issued
\* while a scan is running returns AlreadyRunning and starts no Collect;
\* a Collect starts only in the step of a tick or of a TriggerScan that was
\* accepted, never later on behalf of a call that was rejected.
C31_AtMostOneScan ==
    /\ [](Cardinality(collecting) <= 1 /\ (collecting # {} => schedRunning))
    /\ [][\A c \in TriggerCallers :
            (triggers[c].pc = "idle" /\ collecting # {} /\ triggers'[c] # triggers[c]) =>
                /\ triggers'[c].ret = "AlreadyRunning"
                /\ UNCHANGED <<collecting, started, schedRunning>>]_vars
    /\ [][\A o \in collecting' \ collecting :
            \/ o = "loop" /\ loop = "waiting" /\ collecting = {}
            \/ /\ o \in TriggerCallers
               /\ collecting = {}
               /\ triggers[o].pc = "idle"
               /\ triggers'[o].ret = "started"]_vars

\* C31 witness: a TriggerScan was rejected while the scan of a tick is
\* running, after an earlier scan had ended.
C31_Witness ==
    \E c \in TriggerCallers :
        /\ triggers[c].ret = "AlreadyRunning"
        /\ collecting = {"loop"}
        /\ started = 2

\* C32 (as claimed): Stop is idempotent.  No call of Stop panics, whether
\* it is the first or a later one, and a call of Stop returns only when no
\* scan is in flight any more.
C32_StopIdempotent ==
    [][\A s \in StopCallers :
          (stops[s] = "idle" /\ stops'[s] # "idle") =>
              /\ stops'[s] = "returned"
              /\ stopCh' = "closed"
              /\ collecting' = {}]_vars

====
